---- MODULE Spec2Model ----
\* Import & reconciliation pipeline of fin-manager:
\*   TransactionProcessor.process_transactions (validate, decide, persist),
\*   Transaction.clean / full_clean / save,
\*   ImportService.process_import_report / import_transactions,
\*   the Celery task process_import_task, the upload view and the admin
\*   re-run action, over one database.
EXTENDS Integers, Sequences, FiniteSets, TLC

\* ---------------------------------------------------------------- bounds
MaxBatch == 2        \* longest batch of drafts a file yields
MaxTasks == 2        \* processing tasks ever scheduled for the job
NumWorkers == 2      \* worker processes that may run tasks in parallel
MaxRows == 1         \* rows of the file a job is created for
MaxStored == 2       \* transactions saved outside the import
MaxRuns == 2         \* times the same batch is committed by process_transactions
MaxMatches == 2      \* category lookups one import job makes

\* ------------------------------------------------------- fixed fixtures
Owner == "u1"        \* the importing user
Stranger == "u2"     \* another user of the same database
NoId == 0            \* a null foreign key
NoHint == ""         \* an absent / falsy side-channel hint
FileName == "stmt.json"

\* Account rows (id, owner, name); ids are per table.
Accounts ==
    { [id |-> 1, user |-> Owner, name |-> "Checking"],
      [id |-> 2, user |-> Stranger, name |-> "Savings"] }

\* CreditCard rows.
CreditCards ==
    { [id |-> 1, user |-> Owner, name |-> "Visa"],
      [id |-> 2, user |-> Stranger, name |-> "Master"] }

\* str.lower() / __iexact on the names the model uses.
Lower(s) ==
    CASE s = "Checking" -> "checking"
      [] s = "Savings" -> "savings"
      [] s = "Visa" -> "visa"
      [] s = "Master" -> "master"
      [] s = "Food" -> "food"
      [] s = "Fuel" -> "fuel"
      [] s = "Trip" -> "trip"
      [] s = "INCOME" -> "income"
      [] s = "EXPENSE" -> "expense"
      [] s = "TRANSFER" -> "transfer"
      [] OTHER -> s

\* int(identifier): the parsed id, or -1 where Python raises ValueError.
ParseInt(s) ==
    CASE s = "1" -> 1
      [] s = "2" -> 2
      [] s = "9" -> 9
      [] OTHER -> -1

\* ------------------------------------------------------------ the store
\* The database tables the pipeline writes.  Rows are kept in insertion
\* order; a row's id is its position.
EmptyStore ==
    [ transactions |-> << >>, categories |-> << >>,
      subcategories |-> << >>, tags |-> << >>, tx_tags |-> {} ]


InitialStores ==
    LET
        \* A store in which the owner already has an expense category "food".
        SeededStore ==
            [ EmptyStore EXCEPT !.categories =
                << [user |-> Owner, name |-> "food", ttype |-> "expense"] >> ]
        \* A store in which only the other user has a category, a subcategory
        \* of it and a tag, under the names the drafts use.
        StrangerStore ==
            [ EmptyStore EXCEPT
                !.categories = << [user |-> Stranger, name |-> "Food", ttype |-> "expense"] >>,
                !.subcategories = << [user |-> Stranger, name |-> "Fuel", category |-> 1] >>,
                !.tags = << [user |-> Stranger, name |-> "Trip"] >> ]
    IN  { EmptyStore, SeededStore, StrangerStore }

\* ----------------------------------------------------------- the drafts
\* A draft is the unsaved Transaction a handler returns, with its
\* side-channel hints.  account / credit_card are unset on every draft.
Draft(acct, card, cat, sub, tg, tt, ok, tot, num) ==
    [ acct |-> acct, card |-> card, cat |-> cat, sub |-> sub, tags |-> tg,
      ttype |-> tt, fieldsOk |-> ok, itotal |-> tot, inumber |-> num ]


Drafts ==
    LET PlainDraft == Draft(NoHint, NoHint, NoHint, NoHint, << >>, "EXPENSE", TRUE, 1, 1)
    IN
    { PlainDraft,
      [PlainDraft EXCEPT !.fieldsOk = FALSE],
      [PlainDraft EXCEPT !.acct = "1"],
      [PlainDraft EXCEPT !.acct = "checking"],
      [PlainDraft EXCEPT !.acct = "9"],
      [PlainDraft EXCEPT !.acct = "2"],
      [PlainDraft EXCEPT !.card = "Visa"],
      [PlainDraft EXCEPT !.card = "Master"],
      [PlainDraft EXCEPT !.acct = "1", !.card = "visa"],
      [PlainDraft EXCEPT !.cat = "Food"],
      [PlainDraft EXCEPT !.cat = "Food", !.ttype = "INCOME"],
      [PlainDraft EXCEPT !.cat = "Food", !.fieldsOk = FALSE],
      [PlainDraft EXCEPT !.cat = "Food", !.sub = "Fuel"],
      [PlainDraft EXCEPT !.sub = "Fuel"],
      [PlainDraft EXCEPT !.sub = "Fuel", !.fieldsOk = FALSE],
      [PlainDraft EXCEPT !.tags = << "Trip", "" >>],
      [PlainDraft EXCEPT !.tags = << "trip" >>, !.fieldsOk = FALSE],
      [PlainDraft EXCEPT !.cat = "food", !.sub = "fuel", !.tags = << "trip" >>],
      [PlainDraft EXCEPT !.itotal = 2],
      [PlainDraft EXCEPT !.inumber = 2],
      [PlainDraft EXCEPT !.itotal = 0, !.inumber = 0] }

RECURSIVE SeqsUpTo(_, _)
\* All sequences over S of length at most n.
SeqsUpTo(S, n) ==
    IF n = 0 THEN { << >> }
    ELSE LET shorter == SeqsUpTo(S, n - 1)
         IN shorter \cup { Append(s, x) : s \in { t \in shorter : Len(t) = n - 1 }, x \in S }

\* The ImportedReport handed to the processor: absent (ad-hoc call), or
\* a job with at most one of a default account / credit card.
NoReport == [present |-> FALSE, account |-> NoId, credit_card |-> NoId, file_name |-> ""]
Reports ==
    { NoReport,
      [present |-> TRUE, account |-> NoId, credit_card |-> NoId, file_name |-> FileName],
      [present |-> TRUE, account |-> 1, credit_card |-> NoId, file_name |-> FileName],
      [present |-> TRUE, account |-> NoId, credit_card |-> 1, file_name |-> FileName] }

\* ------------------------------------------------------ entity resolver
\* TransactionProcessor._extract_metadata: the truthy hint values.
extract_metadata(d) ==
    [ account_identifier |-> d.acct, credit_card_identifier |-> d.card,
      category_name |-> d.cat, subcategory_name |-> d.sub, tags_value |-> d.tags ]

\* QuerySet.first() on an id/name lookup in a fixture table: the row's id
\* or NoId.
FirstId(rows) == IF rows = {} THEN NoId ELSE (CHOOSE r \in rows : \A o \in rows : r.id <= o.id).id

\* An account lookup that is not scoped to the user.
match_account_of_any_user(identifier, user) ==
    LET n == ParseInt(identifier)
        byId == { a \in Accounts : a.id = n }
        byName == { a \in Accounts : Lower(a.name) = Lower(identifier) }
    IN IF n # -1 /\ byId # {} THEN FirstId(byId) ELSE FirstId(byName)

\* TransactionProcessor._match_account: by numeric id, then by name.
match_account(identifier, user) ==
    LET n == ParseInt(identifier)
        byId == { a \in Accounts : a.user = user /\ a.id = n }
        byName == { a \in Accounts : a.user = user /\ Lower(a.name) = Lower(identifier) }
    IN IF n # -1 /\ byId # {} THEN FirstId(byId) ELSE FirstId(byName)

\* TransactionProcessor._match_credit_card.
match_credit_card(identifier, user) ==
    LET n == ParseInt(identifier)
        byId == { c \in CreditCards : c.user = user /\ c.id = n }
        byName == { c \in CreditCards : c.user = user /\ Lower(c.name) = Lower(identifier) }
    IN IF n # -1 /\ byId # {} THEN FirstId(byId) ELSE FirstId(byName)

\* A lookup that never finds a row.
FirstRow_never_found(hits) == NoId

\* QuerySet.first() on the row positions a lookup matched: the first
\* one, or NoId.
FirstRow(hits) ==
    IF hits = {} THEN NoId ELSE CHOOSE i \in hits : \A j \in hits : i <= j

\* A create that leaves the table alone when it holds the row already.
create_row_unless_present(table, row) ==
    IF \E i \in 1..Len(table) : table[i] = row THEN table ELSE Append(table, row)

\* Category.objects.create: the row is written to the table at once.
create_row(table, row) == Append(table, row)


RECURSIVE match_tags(_, _, _)
\* TransactionProcessor._match_tags on a list of names: falsy names are
\* dropped, every other name is matched or created.
match_tags(names, user, store) ==
    IF names = << >> THEN [store |-> store, ids |-> << >>]
    ELSE LET name == Head(names)
             Hit(t) == t.user = user /\ Lower(t.name) = Lower(name)
             found == FirstRow({ i \in 1..Len(store.tags) : Hit(store.tags[i]) })
             here == IF name = ""
                     THEN [store |-> store, ids |-> << >>]
                     ELSE IF found # NoId
                     THEN [store |-> store, ids |-> << found >>]
                     ELSE [store |-> [store EXCEPT !.tags =
                                        create_row(@, [user |-> user, name |-> name])],
                           ids |-> << Len(store.tags) + 1 >>]
             rest == match_tags(Tail(names), user, here.store)
         IN [store |-> rest.store, ids |-> here.ids \o rest.ids]

\* ------------------------------------------------------ model validation
BothMsg == "A transaction cannot be associated with both an account and a credit card."
SaveMsg == "Failed to save transactions"

\* clean() without the account / credit-card check.
clean_without_exclusivity(tx) ==
    IF (tx.itotal > 1 \/ tx.inumber > 1) /\ (tx.itotal <= 0 \/ tx.inumber <= 0 \/ tx.inumber > tx.itotal)
    THEN { "installment_number cannot be greater than installments_total." }
    ELSE {}

\* Transaction.clean: the first failing check raises.
clean(tx) ==
    IF tx.account # NoId /\ tx.credit_card # NoId THEN { BothMsg }
    ELSE IF tx.itotal > 1 \/ tx.inumber > 1
    THEN IF tx.itotal <= 0 THEN { "installments_total must be greater than 0." }
         ELSE IF tx.inumber <= 0 THEN { "installment_number must be greater than 0." }
         ELSE IF tx.inumber > tx.itotal
              THEN { "installment_number cannot be greater than installments_total." }
         ELSE {}
    ELSE {}

\* clean_fields accepting every value.
clean_fields_unchecked(tx) == {}

\* Model.clean_fields: per-field validation of the draft's values.
clean_fields(tx) ==
    LET FieldMsg == "invalid field value"
    IN  IF tx.fieldsOk THEN {} ELSE { FieldMsg }

\* Model.full_clean: field errors and clean() errors, raised together.
full_clean(tx) == clean_fields(tx) \cup clean(tx)

\* -------------------------------------------- process_transactions, pass 1

\* The job default also used for an identifier that matched nothing.
resolve_links_default_on_unmatched(md, rep, user) ==
    [ account |-> IF md.account_identifier # NoHint
                     /\ match_account(md.account_identifier, user) # NoId
                  THEN match_account(md.account_identifier, user)
                  ELSE rep.account,
      credit_card |-> IF md.credit_card_identifier # NoHint
                         /\ match_credit_card(md.credit_card_identifier, user) # NoId
                      THEN match_credit_card(md.credit_card_identifier, user)
                      ELSE rep.credit_card ]

\* The account / credit-card part of the first loop: a hint from the file
\* is matched (and, unmatched, leaves the link unset); without a hint the
\* default of the import report is used.
resolve_links(md, rep, user) ==
    [ account |-> IF md.account_identifier # NoHint
                  THEN match_account(md.account_identifier, user)
                  ELSE IF rep.account # NoId THEN rep.account ELSE NoId,
      credit_card |-> IF md.credit_card_identifier # NoHint
                      THEN match_credit_card(md.credit_card_identifier, user)
                      ELSE IF rep.credit_card # NoId THEN rep.credit_card ELSE NoId ]

\* One iteration of the first loop of process_transactions: resolve the
\* hints of draft d (row idx), validate, collect errors.  acc is the
\* loop state: the store, the errors and the processed transactions.
validation_pass(acc, d, idx, rep, user) ==
    LET
        \* TransactionProcessor._match_category_by_name: match or create.
        match_category_by_name(name, ctype, owner, store) ==
            LET Hit(c) == c.user = owner /\ Lower(c.name) = Lower(name) /\ c.ttype = ctype
                found == FirstRow({ i \in 1..Len(store.categories) : Hit(store.categories[i]) })
            IN IF found # NoId
               THEN [store |-> store, id |-> found]
               ELSE [store |-> [store EXCEPT !.categories =
                                  create_row(@, [user |-> owner, name |-> name, ttype |-> ctype])],
                     id |-> Len(store.categories) + 1]
        \* TransactionProcessor._match_subcategory_by_name: match or create.
        match_subcategory_by_name(name, category, owner, store) ==
            LET Hit(c) == c.user = owner /\ Lower(c.name) = Lower(name) /\ c.category = category
                found == FirstRow({ i \in 1..Len(store.subcategories) : Hit(store.subcategories[i]) })
            IN IF found # NoId
               THEN [store |-> store, id |-> found]
               ELSE [store |-> [store EXCEPT !.subcategories =
                                  create_row(@, [user |-> owner, name |-> name, category |-> category])],
                     id |-> Len(store.subcategories) + 1]
        SubcategoryMsg == "Cannot set subcategory without category"
        \* Category.TransactionType for a transaction type.
        category_transaction_type(tt) == IF Lower(tt) = "income" THEN "income" ELSE "expense"
    IN
    LET md == extract_metadata(d)
        links == resolve_links(md, rep, user)
        cat == IF md.category_name # NoHint
               THEN match_category_by_name(md.category_name,
                        category_transaction_type(d.ttype), user, acc.store)
               ELSE [store |-> acc.store, id |-> NoId]
        orphan == md.subcategory_name # NoHint /\ cat.id = NoId
        sub == IF md.subcategory_name # NoHint /\ cat.id # NoId
               THEN match_subcategory_by_name(md.subcategory_name, cat.id, user, cat.store)
               ELSE [store |-> cat.store, id |-> NoId]
        errs1 == IF orphan
                 THEN Append(acc.errors, [row |-> idx, msg |-> { SubcategoryMsg }])
                 ELSE acc.errors
        tx0 == [ row |-> idx, user |-> user, account |-> links.account,
                 credit_card |-> links.credit_card, category |-> cat.id,
                 subcategory |-> sub.id, ttype |-> d.ttype, fieldsOk |-> d.fieldsOk,
                 itotal |-> d.itotal, inumber |-> d.inumber,
                 has_tags |-> FALSE, tags_to_set |-> << >>, origin |-> "" ]
        invalid == full_clean(tx0)
        tg == IF md.tags_value # << >>
              THEN match_tags(md.tags_value, user, sub.store)
              ELSE [store |-> sub.store, ids |-> << >>]
        tx == [tx0 EXCEPT !.has_tags = md.tags_value # << >>, !.tags_to_set = tg.ids]
    IN IF invalid # {}
       THEN [ store |-> sub.store,
              errors |-> Append(errs1, [row |-> idx, msg |-> invalid]),
              processed |-> acc.processed ]
       ELSE [ store |-> tg.store, errors |-> errs1,
              processed |-> Append(acc.processed, tx) ]

\* -------------------------------------------- process_transactions, pass 2


\* One iteration of the loop inside db_transaction.atomic().
persist_one(tx, rep, work) ==
    LET
        \* Model.save: full_clean again, then the row is written.
        save(obj, store) == [store EXCEPT !.transactions = Append(@, obj)]
        \* transaction_obj.tags.set(tags_to_set) on the row just saved.
        tags_set(obj, store) ==
            [store EXCEPT !.tx_tags = @ \cup { << Len(store.transactions), obj.tags_to_set[k] >> :
                                                k \in 1..Len(obj.tags_to_set) }]
    IN
    LET stamped == [tx EXCEPT !.origin = IF rep.present THEN rep.file_name ELSE ""]
        saved == save(stamped, work)
    IN IF tx.has_tags THEN tags_set(stamped, saved) ELSE saved

\* An exception leaving the block without undoing its writes.
atomic_rollback_none(committed, work) == work

\* db_transaction.atomic() left by an exception: the writes of the block
\* are undone.
atomic_rollback(committed, work) == committed

\* The three results process_transactions returns.
validation_result(errors) ==
    [success_count |-> 0, error_count |-> Len(errors), errors |-> errors]
success_result(processed) ==
    [success_count |-> Len(processed), error_count |-> 0, errors |-> << >>]
save_failed_result(processed) ==
    [success_count |-> 0, error_count |-> Len(processed),
     errors |-> << [row |-> 0, msg |-> { SaveMsg }] >>]

\* Persisting whatever was processed, errors or not.
should_persist_always(errors) == TRUE

\* The decision between the two passes: persist only an error-free batch.
should_persist(errors) == errors = << >>

RECURSIVE validate_all(_, _, _, _, _)
\* The whole first loop of process_transactions, from row idx on.
validate_all(acc, drafts, idx, rep, user) ==
    IF idx > Len(drafts) THEN acc
    ELSE validate_all(validation_pass(acc, drafts[idx], idx, rep, user),
                      drafts, idx + 1, rep, user)

RECURSIVE persist_upto(_, _, _, _)
\* The second loop up to and including row n, inside the block.
persist_upto(processed, n, rep, work) ==
    IF n = 0 THEN work
    ELSE persist_one(processed[n], rep, persist_upto(processed, n - 1, rep, work))

\* The part of process_transactions after the first loop: the early return
\* on errors, else the atomic block over the processed transactions.
\* failAt is the row whose save() or tags.set() raises (0: none does).
persist_processed(acc, rep, failAt) ==
    IF ~should_persist(acc.errors)
    THEN [store |-> acc.store, result |-> validation_result(acc.errors)]
    ELSE IF failAt \in 1..Len(acc.processed)
    THEN [store |-> atomic_rollback(acc.store, persist_upto(acc.processed, failAt, rep, acc.store)),
          result |-> save_failed_result(acc.processed)]
    ELSE [store |-> persist_upto(acc.processed, Len(acc.processed), rep, acc.store),
          result |-> success_result(acc.processed)]

\* TransactionProcessor.process_transactions as one call.
process_transactions(drafts, rep, user, store, failAt) ==
    persist_processed(validate_all([store |-> store, errors |-> << >>, processed |-> << >>],
                                   drafts, 1, rep, user),
                      rep, failAt)

\* ------------------------------------------------------ strings, decimals
\* s[i] of a Python string.
CharAt(s, i) == SubSeq(s, i, i)

RECURSIVE LStrip(_)
LStrip(s) == IF Len(s) > 0 /\ CharAt(s, 1) = " " THEN LStrip(SubSeq(s, 2, Len(s))) ELSE s

RECURSIVE RStrip(_)
RStrip(s) ==
    IF Len(s) > 0 /\ CharAt(s, Len(s)) = " " THEN RStrip(SubSeq(s, 1, Len(s) - 1)) ELSE s

\* str.strip().
Strip(s) == RStrip(LStrip(s))

\* str.startswith(p).
StartsWith(s, p) == Len(s) >= Len(p) /\ SubSeq(s, 1, Len(p)) = p

RECURSIVE Replace(_, _, _)
\* str.replace(old, new), for a non-empty old.
Replace(s, old, new) ==
    IF Len(s) < Len(old) THEN s
    ELSE IF StartsWith(s, old)
    THEN new \o Replace(SubSeq(s, Len(old) + 1, Len(s)), old, new)
    ELSE CharAt(s, 1) \o Replace(SubSeq(s, 2, Len(s)), old, new)

\* The value of a digit character, or -1.
DigitVal(c) ==
    CASE c = "0" -> 0 [] c = "1" -> 1 [] c = "2" -> 2 [] c = "3" -> 3 [] c = "4" -> 4
      [] c = "5" -> 5 [] c = "6" -> 6 [] c = "7" -> 7 [] c = "8" -> 8 [] c = "9" -> 9
      [] OTHER -> -1


RECURSIVE DigitsToNat(_)
DigitsToNat(s) ==
    IF s = "" THEN 0
    ELSE 10 * DigitsToNat(SubSeq(s, 1, Len(s) - 1)) + DigitVal(CharAt(s, Len(s)))

\* A signed Decimal: sign, integer part and fraction digits as written.
SDec(neg, units, frac) == [neg |-> neg, units |-> units, frac |-> frac]
NoDecimal == SDec(FALSE, 0, << >>)


\* Decimal(s): surrounding blanks are accepted.
decimal_of(s) ==
    LET
        \* Position of the first "." of s, or 0.
        DotAt(u) ==
            IF \E i \in 1..Len(u) : CharAt(u, i) = "."
            THEN CHOOSE i \in 1..Len(u) : CharAt(u, i) = "." /\ \A j \in 1..(i - 1) : CharAt(u, j) # "."
            ELSE 0
        IsDigits(u) == \A i \in 1..Len(u) : DigitVal(CharAt(u, i)) >= 0
        \* Decimal of an integer part and a fraction part, both digit strings: ok
        \* is FALSE where Python raises decimal.InvalidOperation.
        digits_decimal(whole, part) ==
            IF Len(whole) + Len(part) > 0 /\ IsDigits(whole) /\ IsDigits(part)
            THEN [ok |-> TRUE,
                  value |-> SDec(FALSE, DigitsToNat(whole),
                                 [i \in 1..Len(part) |-> DigitVal(CharAt(part, i))])]
            ELSE [ok |-> FALSE, value |-> NoDecimal]
        \* The string s split at its first point, at position dot (0: none).
        split_decimal(u, dot) ==
            digits_decimal(IF dot = 0 THEN u ELSE SubSeq(u, 1, dot - 1),
                           IF dot = 0 THEN "" ELSE SubSeq(u, dot + 1, Len(u)))
        \* Decimal(s) for an unsigned digit string with at most one point.
        unsigned_decimal(u) == split_decimal(u, DotAt(u))
        \* The value body with a minus sign set on it.
        with_sign(neg, body) ==
            IF body.ok /\ neg THEN [ok |-> TRUE, value |-> [body.value EXCEPT !.neg = TRUE]]
            ELSE body
        \* Decimal(t) for a string without surrounding blanks: one leading sign
        \* is accepted.
        signed_decimal(t) ==
            with_sign(StartsWith(t, "-"),
                      unsigned_decimal(IF StartsWith(t, "-") \/ StartsWith(t, "+")
                                       THEN SubSeq(t, 2, Len(t)) ELSE t))
    IN  signed_decimal(Strip(s))

\* Decimal comparisons and arithmetic the handlers use.
IsZero(a) == a.units = 0 /\ \A i \in 1..Len(a.frac) : a.frac[i] = 0
negative(a) == a.neg /\ ~IsZero(a)
abs_decimal(a) == [a EXCEPT !.neg = FALSE]

\* ------------------------------------------------------------ the files
\* Exceptions, by class name; NoExc: none raised.
NoExc == ""

\* A data row as the cells of the file give it (after str(v), "" for an
\* empty cell).  Accented header names are written without accents.
Row(data, valor, tipo, lancamento, card) ==
    [ data |-> data, valor |-> valor, tipo |-> tipo, lancamento |-> lancamento,
      card |-> card ]

FileRows ==
    { Row("05/01/2024", "-50,00", "", "Pix", ""),
      Row("05/01/2024", "50,00", "", "Pix", ""),
      Row("05/01/2024", "0,00", "", "Pix", ""),
      Row("05/01/2024", "-R$ 13,94", "", "Pix", ""),
      Row("05/01/2024", "-50.5", "", "Pix", ""),
      Row("05/01/2024", "-50,00", "entrada", "Pix", ""),
      Row("05/01/2024", "-50.5", "expense", "Pix", ""),
      Row("05/01/2024", "100,00", "", "Saldo do dia", ""),
      Row("99/99/2024", "50,00", "", "Pix", ""),
      Row("05/01/2024", "", "", "Pix", ""),
      Row("05/01/2024", "abc", "", "Pix", ""),
      Row("05/01/2024", "50.5", "", "Pix", "Visa"),
      Row("05/01/2024", "50.555", "", "Pix", "") }

\* The column names of each file layout, with the cell of the row each
\* column holds ("-": a column the model gives no value).
ColumnField(layout) ==
    CASE layout = "inter_statement" ->
           [ c \in { "data lancamento", "descricao", "valor", "saldo" } |->
               CASE c = "data lancamento" -> "data" [] c = "descricao" -> "lancamento"
                 [] c = "valor" -> "valor" [] OTHER -> "-" ]
      [] layout = "inter_card" ->
           [ c \in { "data", "lancamento", "categoria", "tipo", "valor" } |->
               CASE c = "data" -> "data" [] c = "lancamento" -> "lancamento"
                 [] c = "valor" -> "valor" [] OTHER -> "-" ]
      [] layout = "bb" ->
           [ c \in { "data", "lancamento", "detalhes", "n documento", "valor",
                     "tipo lancamento" } |->
               CASE c = "data" -> "data" [] c = "lancamento" -> "lancamento"
                 [] c = "valor" -> "valor" [] c = "tipo lancamento" -> "tipo"
                 [] OTHER -> "-" ]
      [] layout = "default" ->
           [ c \in { "date", "amount", "description", "transaction_type", "credit_card" } |->
               CASE c = "date" -> "data" [] c = "amount" -> "valor"
                 [] c = "description" -> "lancamento" [] c = "transaction_type" -> "tipo"
                 [] OTHER -> "card" ]
      [] layout = "json" ->
           [ c \in { "date", "total", "name", "credit_card" } |->
               CASE c = "date" -> "data" [] c = "total" -> "valor"
                 [] c = "name" -> "lancamento" [] OTHER -> "card" ]
      [] layout = "json_no_total" ->
           [ c \in { "date", "name" } |->
               CASE c = "date" -> "data" [] OTHER -> "lancamento" ]
      [] OTHER -> [ c \in { "id" } |-> "-" ]


\* The dict of one data row: column name -> cell.
row_dict(layout, r) ==
    LET
        \* The cells of row r under the columns of fields.
        cells(fields, line) == [ c \in DOMAIN fields |-> IF fields[c] = "-" THEN "" ELSE line[fields[c]] ]
    IN  cells(ColumnField(layout), r)

\* dict.get(col, "").
Get(row, col) == IF col \in DOMAIN row THEN row[col] ELSE ""

\* A stored file: its name, what reading it does ("ok"; "missing":
\* FileNotFoundError; "garbled": not parseable in its format; "denied":
\* PermissionError), its layout and its data rows.
File(name, state, layout, rows) ==
    [ name |-> name, state |-> state, layout |-> layout, rows |-> rows ]

\* The exception open() / the reader raises for the file, by class.
read_error(f) ==
    CASE f.state = "missing" -> "FileNotFoundError"
      [] f.state = "garbled" -> "ParserError"
      [] f.state = "denied" -> "PermissionError"
      [] OTHER -> NoExc

\* ------------------------------------------------------------ the dates
NoDate == [y |-> 0, m |-> 0, d |-> 0]

\* datetime.strptime(s, fmt).date() on the dates the model uses; NoDate
\* where it raises ValueError.
strptime(s, fmt) ==
    CASE s = "05/01/2024" /\ fmt \in { "%d/%m/%Y", "%m/%d/%Y" } -> [y |-> 2024, m |-> 1, d |-> 5]
      [] s = "2024-01-05" /\ fmt = "%Y-%m-%d" -> [y |-> 2024, m |-> 1, d |-> 5]
      [] OTHER -> NoDate

RECURSIVE first_format(_, _)
\* The loop "for date_format in DATE_FORMATS: try ... except ValueError".
first_format(s, formats) ==
    IF formats = << >> THEN NoDate
    ELSE IF strptime(s, Head(formats)) # NoDate THEN strptime(s, Head(formats))
    ELSE first_format(s, Tail(formats))


\* _parse_date of the Banco Inter handlers.
inter_parse_date(s) == strptime(Strip(s), "%d/%m/%Y")


\* _parse_date of the default handlers.
default_parse_date(s) ==
    LET DATE_FORMATS == << "%Y-%m-%d", "%d/%m/%Y", "%m/%d/%Y", "%Y/%m/%d", "%d-%m-%Y", "%m-%d-%Y" >>
    IN  first_format(Strip(s), DATE_FORMATS)

\* --------------------------------------------------------- the handlers
\* The unsaved Transaction a row parser builds, with the credit-card hint
\* (_csv_ / _json_credit_card_identifier; "" when the handler sets none).
ParsedTx(tt, amount, description, occurred_at, card) ==
    [ ttype |-> tt, amount |-> amount, description |-> description,
      occurred_at |-> occurred_at, card |-> card ]

NoTx == ParsedTx("", NoDecimal, "", NoDate, "")

RowRaises(e) == [exc |-> e, skip |-> FALSE, tx |-> NoTx]

\* "amount = Decimal(valor_str); if is_negative: amount = -amount" under
\* "except (ValueError, TypeError)", which does not catch
\* decimal.InvalidOperation (an ArithmeticError).
negated_if(is_negative, d) ==
    LET negate(a) == [a EXCEPT !.neg = ~a.neg]
    IN
    IF ~d.ok THEN [exc |-> "InvalidOperation", value |-> NoDecimal]
    ELSE [exc |-> NoExc, value |-> IF is_negative THEN negate(d.value) ELSE d.value]


\* BancoInterBankStatementCsvHandler._parse_amount; the same code serves
\* BBBankStatementXlsxHandler, whose isinstance(valor_str, (int, float))
\* branch is never taken: every cell is a str by then.
parse_amount(valor_str) ==
    LET
        \* The tail of _parse_amount: the thousands separator is removed, the
        \* decimal comma becomes a point.
        brazilian_decimal(is_negative, value) ==
            negated_if(is_negative, decimal_of(Replace(Replace(value, ".", ""), ",", ".")))
        \* valor_str[1:].strip() after a leading minus.
        unsigned_part(s) == IF StartsWith(s, "-") THEN Strip(SubSeq(s, 2, Len(s))) ELSE s
        \* _parse_amount after valor_str.strip().
        stripped_amount(s) == brazilian_decimal(StartsWith(s, "-"), unsigned_part(s))
    IN  stripped_amount(Strip(valor_str))

\* BancoInterCreditCardCsvHandler._parse_amount.
card_parse_amount(valor_str) == parse_amount(Replace(valor_str, "R$", ""))

\* The statements' branch with the types of the credit-card bill.
statement_sign_as_bill(amount) ==
    IF negative(amount) THEN [ttype |-> "INCOME", amount |-> abs_decimal(amount)]
    ELSE [ttype |-> "EXPENSE", amount |-> amount]

\* "if amount < 0: EXPENSE, abs(amount) else: INCOME" of the statements.
statement_sign(amount) ==
    IF negative(amount) THEN [ttype |-> "EXPENSE", amount |-> abs_decimal(amount)]
    ELSE [ttype |-> "INCOME", amount |-> amount]

\* "if amount < 0: INCOME, abs(amount) else: EXPENSE" of the bill and of
\* the default handlers.
bill_sign(amount) ==
    IF negative(amount) THEN [ttype |-> "INCOME", amount |-> abs_decimal(amount)]
    ELSE [ttype |-> "EXPENSE", amount |-> amount]

\* The checks every row parser makes, in their order: the date is there
\* and parses, the amount is there and parses, the entry type is valid.
row_outcome(date_str, occurred_at, valor_str, amount, entry, description, card) ==
    LET
        \* What parsing one row does: a transaction, None (skip is TRUE), or an
        \* exception.
        Parsed(tx) == [exc |-> NoExc, skip |-> FALSE, tx |-> tx]
    IN
    IF date_str = "" THEN RowRaises("ValueError")
    ELSE IF occurred_at = NoDate THEN RowRaises("ValueError")
    ELSE IF valor_str = "" THEN RowRaises("ValueError")
    ELSE IF amount.exc # NoExc THEN RowRaises(amount.exc)
    ELSE IF entry.ttype = "" THEN RowRaises("ValueError")
    ELSE Parsed(ParsedTx(entry.ttype, entry.amount, description, occurred_at, card))


\* BancoInterBankStatementCsvHandler._parse_transaction_row.
inter_statement_parse_row(row) ==
    LET
        \* BancoInterBankStatementCsvHandler._parse_transaction_row, on the
        \* stripped cells.
        statement_row(date_str, valor_str, amount, description) ==
            row_outcome(date_str, inter_parse_date(date_str), valor_str, amount,
                        statement_sign(amount.value), description, "")
    IN
    statement_row(Strip(Get(row, "data lancamento")), Strip(Get(row, "valor")),
                  parse_amount(Strip(Get(row, "valor"))), Strip(Get(row, "descricao")))


\* BancoInterCreditCardCsvHandler._parse_transaction_row.
inter_card_parse_row(row) ==
    LET
        \* BancoInterCreditCardCsvHandler._parse_transaction_row, on the stripped
        \* cells.
        bill_row(date_str, valor_str, amount, description) ==
            row_outcome(date_str, inter_parse_date(date_str), valor_str, amount,
                        bill_sign(amount.value), description, "")
    IN
    bill_row(Strip(Get(row, "data")), Strip(Get(row, "valor")),
             card_parse_amount(Strip(Get(row, "valor"))), Strip(Get(row, "lancamento")))


\* BBBankStatementXlsxHandler._parse_transaction_row.
bb_parse_row(row) ==
    LET
        \* _parse_date of the Banco do Brasil handler (the cell is a str).
        bb_parse_date(s) ==
            IF Strip(s) \in { "00/00/0000", "00/00/00", "nan", "" } THEN NoDate
            ELSE first_format(Strip(s), << "%d/%m/%Y", "%d/%m/%y", "%Y-%m-%d" >>)
        RowSkipped == [exc |-> NoExc, skip |-> TRUE, tx |-> NoTx]
        \* any(pattern in lancamento for pattern in IGNORE_PATTERNS), on the
        \* descriptions the model uses.
        is_balance_row(lancamento) == Lower(Strip(lancamento)) = "saldo do dia"
        \* The entry type of a Banco do Brasil row: "tipo lancamento" when it says
        \* entrada or saida, the sign of the amount otherwise.
        bb_entry(tipo, amount) ==
            CASE tipo = "entrada" -> [ttype |-> "INCOME", amount |-> abs_decimal(amount)]
              [] tipo = "saida" -> [ttype |-> "EXPENSE", amount |-> abs_decimal(amount)]
              [] OTHER -> statement_sign(amount)
        \* BBBankStatementXlsxHandler._parse_transaction_row, after the balance
        \* rows are left out.
        bb_row(date_str, valor_str, amount, tipo, description) ==
            row_outcome(Strip(date_str), bb_parse_date(date_str), valor_str, amount,
                        bb_entry(tipo, amount.value), description, "")
    IN
    IF is_balance_row(Get(row, "lancamento")) THEN RowSkipped
    ELSE bb_row(Get(row, "data"), Strip(Get(row, "valor")),
                parse_amount(Strip(Get(row, "valor"))),
                Lower(Strip(Get(row, "tipo lancamento"))), Strip(Get(row, "lancamento")))

RECURSIVE find_column_value(_, _)
\* DefaultCSVHandler._find_column_value: the first non-blank value among
\* the candidate columns, "" for None.
find_column_value(row, column_names) ==
    IF column_names = << >> THEN ""
    ELSE IF Strip(Get(row, Head(column_names))) # "" THEN Strip(Get(row, Head(column_names)))
    ELSE find_column_value(row, Tail(column_names))

DATE_COLUMNS == << "date", "occurred_at", "transaction_date", "occurred_date" >>
AMOUNT_COLUMNS == << "amount", "value", "total" >>
CREDIT_CARD_COLUMNS == << "credit_card", "credit_card_id", "credit_card_name" >>


\* Decimal(str(value)) of the default handlers.
default_amount(value) == negated_if(FALSE, decimal_of(value))


\* DefaultCSVHandler._parse_transaction_row.
default_csv_parse_row(row) ==
    LET DESCRIPTION_COLUMNS == << "description", "name", "memo", "note" >>
        TRANSACTION_TYPE_COLUMNS == << "transaction_type", "type" >>
        \* DefaultCSVHandler._parse_transaction_type, on the values the model
        \* uses; "" where it raises ValueError.
        parse_transaction_type(type_str) ==
            CASE type_str \in { "income", "INCOME" } -> "INCOME"
              [] type_str \in { "expense", "EXPENSE" } -> "EXPENSE"
              [] OTHER -> ""
        \* The transaction type of a DefaultCSVHandler row.
        default_entry(type_value, amount) ==
            IF type_value = "" THEN bill_sign(amount)
            ELSE [ttype |-> parse_transaction_type(type_value), amount |-> amount]
        \* DefaultCSVHandler._parse_transaction_row, on the values found.
        default_row(date_value, amount_value, amount, type_value, description, card) ==
            row_outcome(date_value, default_parse_date(date_value), amount_value, amount,
                        default_entry(type_value, amount.value), description, card)
    IN
    default_row(find_column_value(row, DATE_COLUMNS),
                find_column_value(row, AMOUNT_COLUMNS),
                default_amount(find_column_value(row, AMOUNT_COLUMNS)),
                find_column_value(row, TRANSACTION_TYPE_COLUMNS),
                find_column_value(row, DESCRIPTION_COLUMNS),
                find_column_value(row, CREDIT_CARD_COLUMNS))


\* DefaultJsonHandler._parse_transaction_item.
default_json_parse_item(item) ==
    LET
        \* DefaultJsonHandler._parse_transaction_item, on an item that has the
        \* required fields: str(item["total"]) is never blank-checked.
        json_item(date_value, amount, description, card) ==
            row_outcome("-", default_parse_date(date_value), "-", amount,
                        bill_sign(amount.value), description, card)
    IN
    IF ~({ "name", "date", "total" } \subseteq DOMAIN item) THEN RowRaises("ValueError")
    ELSE json_item(Strip(item["date"]), default_amount(item["total"]), Strip(item["name"]),
                   find_column_value(item, CREDIT_CARD_COLUMNS))

Handlers ==
    { "BancoInterBankStatementCsvHandler", "BancoInterCreditCardCsvHandler",
      "BBBankStatementXlsxHandler", "DefaultCSVHandler", "DefaultJsonHandler" }

\* handler._parse_transaction_row / _parse_transaction_item.
parse_transaction_row(handler, row) ==
    CASE handler = "BancoInterBankStatementCsvHandler" -> inter_statement_parse_row(row)
      [] handler = "BancoInterCreditCardCsvHandler" -> inter_card_parse_row(row)
      [] handler = "BBBankStatementXlsxHandler" -> bb_parse_row(row)
      [] handler = "DefaultCSVHandler" -> default_csv_parse_row(row)
      [] OTHER -> default_json_parse_item(row)

\* ----------------------------------------------- detection and parsing
\* The header probe of can_handle_file: the column names (the keys of the
\* first item for JSON), or the exception the read raises.
headers_read(f) ==
    IF read_error(f) # NoExc THEN [exc |-> read_error(f), headers |-> {}]
    ELSE [exc |-> NoExc, headers |-> DOMAIN ColumnField(f.layout)]


\* The check can_handle_file makes on a file it could read.
headers_match(handler, f) ==
    LET
        \* EXPECTED_HEADERS of the dialect handlers.
        EXPECTED_HEADERS(h) ==
            CASE h = "BancoInterBankStatementCsvHandler" ->
                   { "data lancamento", "descricao", "valor", "saldo" }
              [] h = "BancoInterCreditCardCsvHandler" ->
                   { "data", "lancamento", "categoria", "tipo", "valor" }
              [] OTHER -> { "data", "lancamento", "detalhes", "n documento", "valor", "tipo lancamento" }
        \* The elements of a tuple.
        Elements(columns) == { columns[i] : i \in 1..Len(columns) }
    IN
    CASE handler = "DefaultCSVHandler" ->
           /\ Elements(DATE_COLUMNS) \cap DOMAIN ColumnField(f.layout) # {}
           /\ Elements(AMOUNT_COLUMNS) \cap DOMAIN ColumnField(f.layout) # {}
      [] handler = "DefaultJsonHandler" ->
           /\ f.layout # "json_object"
           /\ f.rows # << >>
           /\ { "name", "date", "total" } \subseteq DOMAIN ColumnField(f.layout)
      [] OTHER -> EXPECTED_HEADERS(handler) \subseteq DOMAIN ColumnField(f.layout)

\* can_handle_file with only the listed exception classes caught: another
\* exception (PermissionError) leaves the method.
can_handle_file_listed_only(handler, f) ==
    IF headers_read(f).exc \in { "FileNotFoundError", "ParserError" }
    THEN [exc |-> NoExc, result |-> FALSE]
    ELSE IF headers_read(f).exc # NoExc
    THEN [exc |-> headers_read(f).exc, result |-> FALSE]
    ELSE [exc |-> NoExc, result |-> headers_match(handler, f)]

\* handler.can_handle_file(path): every exception of the read is caught
\* ("except (...)" and "except Exception") and gives False.
can_handle_file(handler, f) ==
    IF headers_read(f).exc # NoExc
    THEN [exc |-> NoExc, result |-> FALSE]
    ELSE [exc |-> NoExc, result |-> headers_match(handler, f)]

\* What leaves parse_transactions_from_file when opening the file fails:
\* the tabular handlers re-raise FileNotFoundError and wrap anything else
\* in ValueError; the JSON handler catches FileNotFoundError and
\* JSONDecodeError only, and rejects a top-level value that is no list.
open_error(handler, f) ==
    CASE read_error(f) = "FileNotFoundError" -> "FileNotFoundError"
      [] read_error(f) = "PermissionError" /\ handler = "DefaultJsonHandler" -> "PermissionError"
      [] read_error(f) # NoExc -> "ValueError"
      [] handler = "DefaultJsonHandler" /\ f.layout = "json_object" -> "ValueError"
      [] OTHER -> NoExc


RECURSIVE parse_rows(_, _, _, _, _)
\* The row loop of parse_transactions_from_file.
parse_rows(handler, layout, rows, i, acc) ==
    LET
        \* What leaves parse_transactions_from_file when a row raises something
        \* the row loop does not catch: the tabular handlers wrap it in
        \* ValueError ("except Exception"), the JSON handler lets it through.
        row_error(h, e) == IF h = "DefaultJsonHandler" THEN e ELSE "ValueError"
        \* One turn of the row loop: a row raising ValueError is skipped with a
        \* warning, a row giving None is left out, any other exception ends the
        \* loop.
        after_row(h, sofar, n, r) ==
            CASE r.exc = "ValueError" -> [sofar EXCEPT !.skipped = Append(@, n)]
              [] r.exc # NoExc ->
                   [exc |-> row_error(h, r.exc), transactions |-> << >>, skipped |-> sofar.skipped]
              [] r.skip -> sofar
              [] OTHER -> [sofar EXCEPT !.transactions = Append(@, r.tx)]
    IN
    IF i > Len(rows) \/ acc.exc # NoExc THEN acc
    ELSE parse_rows(handler, layout, rows, i + 1,
                    after_row(handler, acc, i,
                              parse_transaction_row(handler, row_dict(layout, rows[i]))))

\* handler.parse_transactions_from_file(path, user).
parse_transactions_from_file(handler, f) ==
    IF open_error(handler, f) # NoExc
    THEN [exc |-> open_error(handler, f), transactions |-> << >>, skipped |-> << >>]
    ELSE parse_rows(handler, f.layout, f.rows, 1,
                    [exc |-> NoExc, transactions |-> << >>, skipped |-> << >>])

\* ------------------------------------------------------- the factories
NoHandler == ""      \* no handler was chosen
NoHandlerMsg == "No handler could process XLSX file"


\* BancoInterCsvHandler.can_handle_file(headers): the credit-card-bill
\* dialect, recognised by its header names.
banco_inter_can_handle(headers) ==
    { "data", "lancamento", "categoria", "tipo", "valor" } \subseteq headers

\* CSVImportFactory.create_handler: the header read is outside any try;
\* DefaultCSVHandler.can_handle_file is handed the header list where it
\* expects a path, so its open() fails and it answers False; the handler
\* after the loop is DefaultCSVHandler.
csv_create_handler(f) ==
    LET
        \* DataFrame.empty: some axis has length 0.
        df_empty(nrows, columns) == nrows = 0 \/ columns = {}
        \* CSVImportFactory._read_csv_headers: pd.read_csv(..., nrows=0) and the
        \* "df.empty or df.columns.empty" check, inside "except Exception".
        read_csv_headers(path) ==
            IF read_error(path) = "FileNotFoundError"
            THEN [exc |-> "FileNotFoundError", headers |-> {}]
            ELSE IF read_error(path) # NoExc \/ df_empty(0, DOMAIN ColumnField(path.layout))
            THEN [exc |-> "ValueError", headers |-> {}]
            ELSE [exc |-> NoExc, headers |-> DOMAIN ColumnField(path.layout)]
    IN
    IF read_csv_headers(f).exc # NoExc
    THEN [exc |-> read_csv_headers(f).exc, handler |-> NoHandler]
    ELSE IF banco_inter_can_handle(read_csv_headers(f).headers)
    THEN [exc |-> NoExc, handler |-> "BancoInterCsvHandler"]
    ELSE [exc |-> NoExc, handler |-> "DefaultCSVHandler"]

RECURSIVE first_handler(_, _)
\* The loop of the JSON and XLSX factories: the first handler of the
\* list whose can_handle_file answers True; one that raises is passed
\* over.  NoHandler when the loop ends.
first_handler(handlers, f) ==
    IF handlers = << >> THEN NoHandler
    ELSE IF can_handle_file(Head(handlers), f).exc = NoExc
            /\ can_handle_file(Head(handlers), f).result
    THEN Head(handlers)
    ELSE first_handler(Tail(handlers), f)

\* The JSON factory without its fallback: the no-handler error instead.
json_create_handler_no_fallback(f) ==
    IF first_handler(<< "DefaultJsonHandler" >>, f) # NoHandler
    THEN [exc |-> NoExc, handler |-> first_handler(<< "DefaultJsonHandler" >>, f)]
    ELSE [exc |-> NoHandlerMsg, handler |-> NoHandler]

\* JSONImportFactory.create_handler.
json_create_handler(f) ==
    IF first_handler(<< "DefaultJsonHandler" >>, f) # NoHandler
    THEN [exc |-> NoExc, handler |-> first_handler(<< "DefaultJsonHandler" >>, f)]
    ELSE [exc |-> NoExc, handler |-> "DefaultJsonHandler"]

\* XLSXImportFactory.create_handler.
xlsx_create_handler(f) ==
    IF first_handler(<< "BBBankStatementXlsxHandler" >>, f) # NoHandler
    THEN [exc |-> NoExc, handler |-> first_handler(<< "BBBankStatementXlsxHandler" >>, f)]
    ELSE [exc |-> NoHandlerMsg, handler |-> NoHandler]

\* Model.clean_fields on the amount: DecimalField(decimal_places=2).
amount_ok(a) == Len(a.frac) <= 2


\* The drafts of a parsed file.
to_drafts(transactions) ==
    LET
        \* The draft the pipeline sees for a parsed transaction.
        to_draft(tx) ==
            Draft(NoHint, tx.card, NoHint, NoHint, << >>, tx.ttype, amount_ok(tx.amount), 1, 1)
    IN  [i \in 1..Len(transactions) |-> to_draft(transactions[i])]

\* ------------------------------------------------------- import service
\* ImportService._detect_file_format, on the names the model uses.
detect_file_format(name) ==
    CASE name = "stmt.xlsx" -> "xlsx"
      [] name = "stmt.json" -> "json"
      [] OTHER -> "csv"

\* factory.create_handler of the factory _get_factory_for_format picks.
create_handler(f) ==
    CASE detect_file_format(f.name) = "json" -> json_create_handler(f)
      [] detect_file_format(f.name) = "xlsx" -> xlsx_create_handler(f)
      [] OTHER -> csv_create_handler(f)

\* An exception leaving import_transactions: nothing was processed.
import_raises(e, store) ==
    [ raised |-> TRUE, exc |-> e, store |-> store,
      result |-> [success_count |-> 0, error_count |-> 0, errors |-> << >>],
      handler_type |-> "" ]


\* ImportService.import_transactions.
import_transactions(f, rep, user, store, readable, failAt) ==
    LET
        \* result["handler_type"] = handler_type; return result.
        import_returns(done, handler_type) ==
            [ raised |-> FALSE, exc |-> "", store |-> done.store, result |-> done.result,
              handler_type |-> handler_type ]
        \* The lines of import_transactions after the parse.
        import_parsed(handler_type, parsed, report, owner, db, failing) ==
            IF parsed.exc # NoExc THEN import_raises(parsed.exc, db)
            ELSE import_returns(process_transactions(to_drafts(parsed.transactions), report, owner,
                                                     db, failing),
                                handler_type)
        \* The lines of import_transactions after the handler is chosen.
        import_with(h, file, report, owner, db, failing) ==
            IF h.exc # NoExc THEN import_raises(h.exc, db)
            ELSE import_parsed(h.handler, parse_transactions_from_file(h.handler, file), report, owner,
                               db, failing)
        \* The stored file as the import finds it: it may have been removed.
        file_now(file, there) == IF there THEN file ELSE [file EXCEPT !.state = "missing"]
    IN
    import_with(create_handler(file_now(f, readable)), file_now(f, readable), rep, user,
                store, failAt)

\* The failed_reason values.
NullReason == [kind |-> "null", count |-> 0, msg |-> ""]
errors_reason(n) == [kind |-> "Import completed with errors", count |-> n, msg |-> ""]
NothingImportedReason == [kind |-> "No transactions were imported", count |-> 0, msg |-> ""]
exception_reason(e) == [kind |-> "exception", count |-> 0, msg |-> e]

\* IMPORTED for any error-free result, also one that imported nothing.
final_status_ignoring_count(result) ==
    IF result.error_count = 0 THEN "IMPORTED" ELSE "FAILED"

\* A result without rows puts the job back to SENT.
final_status_requeue(result) ==
    IF result.error_count = 0 /\ result.success_count > 0 THEN "IMPORTED"
    ELSE IF result.error_count > 0 THEN "FAILED" ELSE "SENT"

\* The status process_import_report chooses for a result.
final_status(result) ==
    IF result.error_count = 0 /\ result.success_count > 0 THEN "IMPORTED" ELSE "FAILED"

\* process_import_report, from the result to the save: the in-memory
\* report after the assignments.  failed_reason is assigned only in the
\* two FAILED branches.
record_results(mem, result, handler_type, now) ==
    [ mem EXCEPT
        !.success_count = result.success_count,
        !.error_count = result.error_count,
        !.errors = result.errors,
        !.handler_type = handler_type,
        !.processed_at = now,
        !.status = final_status(result),
        !.failed_reason =
            IF final_status(result) = "IMPORTED" THEN @
            ELSE IF result.error_count > 0 THEN errors_reason(result.error_count)
            ELSE NothingImportedReason ]

\* An except branch that stores a fixed text instead of str(e).
record_exception_generic(mem, e, now) ==
    [ mem EXCEPT !.status = "FAILED", !.failed_reason = exception_reason("Import failed"),
                 !.processed_at = now ]

\* The "except Exception" branch of process_import_report.
record_exception(mem, e, now) ==
    [ mem EXCEPT !.status = "FAILED", !.failed_reason = exception_reason(e),
                 !.processed_at = now ]

RerunFieldsStatusOnly == { "status" }
RerunFields == { "status", "failed_reason" }
save_update_fields(row, mem, fields) ==
    [ k \in DOMAIN row |-> IF k \in fields THEN mem[k] ELSE row[k] ]

\* ------------------------------------------------------------ variables
VARIABLES
    db,         \* the committed database tables
    batch,      \* process_transactions: the drafts passed in
    report,     \* process_transactions: the ImportedReport of the processor
    pc,         \* process_transactions: "validate", "persist" or "returned"
    idx,        \* process_transactions: the loop index of the current pass
    errors,     \* process_transactions: the errors list
    processed,  \* process_transactions: the processed_transactions list
    work,       \* the tables as seen inside the open atomic block
    result,     \* process_transactions: the dictionary returned
    outcome,    \* which return statement was taken
    entry,      \* the tables as they were when process_transactions was called
    job,        \* the ImportedReport row of the job
    file,       \* the stored file of the job
    scheduled,  \* number of process_import_task messages sent so far
    resets,     \* number of times the re-run action was applied
    queue,      \* process_import_task messages not yet picked up
    workers,    \* per worker: position, in-memory ImportedReport (and the
                \* status it was loaded with), result, exception, how it ended
    clock,      \* datetime.now(), as a count of the stamps taken
    instance,   \* fingerprinting: the in-memory Transaction being written
    stored,     \* fingerprinting: the saved rows (amount, description, date, hash)
    srcfile,    \* import: the file handed to the factory or the handler
    handler,    \* import: the class of the handler in use
    hpc,        \* import: "start", "import", "detected", "selected", "parsed",
                \* "returned" or "raised"
    detected,   \* import: what can_handle_file did
    parsed,     \* import: what parse_transactions_from_file did
    raised,     \* import: the exception that left the call
    summary,    \* import: the result dictionary of import_transactions
    lookups     \* per import job: its _match_category_by_name call in progress

batchVars == << batch, report, pc, idx, errors, processed, work, result, outcome, entry >>
jobVars == << job, file, scheduled, resets, queue, workers, clock >>
txVars == << instance, stored >>
handlerVars == << srcfile, handler, hpc, detected, parsed, raised, summary >>
resolverVars == << lookups >>
vars == << db, batch, report, pc, idx, errors, processed, work, result, outcome, entry,
           job, file, scheduled, resets, queue, workers, clock, instance, stored,
          srcfile, handler, hpc, detected, parsed, raised, summary, lookups >>

NoResult == [success_count |-> 0, error_count |-> 0, errors |-> << >>]

\* ------------------------------------------------ the job row and workers
NoJob ==
    [ exists |-> FALSE, status |-> "", failed_reason |-> NullReason,
      success_count |-> 0, error_count |-> 0, errors |-> << >>,
      handler_type |-> "", processed_at |-> 0,
      account |-> NoId, credit_card |-> NoId, file_name |-> "" ]
NoFile == File("", "ok", "other", << >>)
IdleWorker ==
    [ pc |-> "idle", mem |-> NoJob, loaded_status |-> "", result |-> NoResult,
      handler_type |-> "", exc |-> "", ended |-> "" ]
Workers == 1..NumWorkers

\* No transaction is being written outside the import.
NoInstance ==
    [ pk |-> 0, amount |-> [units |-> 0, frac |-> << >>],
      description |-> [none |-> TRUE, text |-> ""],
      occurred_at |-> [y |-> 0, m |-> 0, d |-> 0], hash |-> "" ]
TxIdle ==
    /\ instance = NoInstance
    /\ stored = << >>

\* No detection, no parse and no import has been made.
NoDetection == [exc |-> NoExc, result |-> FALSE]
NoParse == [exc |-> NoExc, transactions |-> << >>, skipped |-> << >>]
NoImport == [success_count |-> 0, error_count |-> 0, errors |-> << >>]

HandlerIdle ==
    /\ srcfile = NoFile
    /\ handler = NoHandler
    /\ hpc = "idle"
    /\ detected = NoDetection
    /\ parsed = NoParse
    /\ raised = NoExc
    /\ summary = NoImport

\* No import job is inside _match_category_by_name.
ResolverIdle ==
    LET NoLookup == [pc |-> "idle", name |-> "", found |-> NoId, category |-> NoId, calls |-> 0]
    IN  lookups = [j \in Workers |-> NoLookup]

\* -------------------------------- process_transactions, one step at a time
\* The first loop: one draft per step.
ValidateNext ==
    /\ pc = "validate"
    /\ idx <= Len(batch)
    /\ LET acc == validation_pass([store |-> db, errors |-> errors, processed |-> processed],
                                  batch[idx], idx, report, Owner)
       IN /\ db' = acc.store
          /\ errors' = acc.errors
          /\ processed' = acc.processed
    /\ idx' = idx + 1
    /\ UNCHANGED << batch, report, pc, work, result, outcome, entry >>
    /\ UNCHANGED jobVars
    /\ UNCHANGED handlerVars
    /\ UNCHANGED resolverVars
    /\ UNCHANGED txVars

\* The first loop left at the first error.
Reject_at_first_error ==
    /\ pc = "validate"
    /\ idx > Len(batch) \/ errors # << >>
    /\ ~should_persist(errors)
    /\ result' = validation_result(errors)
    /\ outcome' = "rejected"
    /\ pc' = "returned"
    /\ UNCHANGED << db, batch, report, idx, errors, processed, work, entry >>
    /\ UNCHANGED jobVars
    /\ UNCHANGED handlerVars
    /\ UNCHANGED resolverVars
    /\ UNCHANGED txVars

\* "if errors: return ..." after the first loop.
Reject ==
    /\ pc = "validate"
    /\ idx > Len(batch)
    /\ ~should_persist(errors)
    /\ result' = validation_result(errors)
    /\ outcome' = "rejected"
    /\ pc' = "returned"
    /\ UNCHANGED << db, batch, report, idx, errors, processed, work, entry >>
    /\ UNCHANGED jobVars
    /\ UNCHANGED handlerVars
    /\ UNCHANGED resolverVars
    /\ UNCHANGED txVars

\* "with db_transaction.atomic():" is entered.
BeginAtomic ==
    /\ pc = "validate"
    /\ idx > Len(batch)
    /\ should_persist(errors)
    /\ work' = db
    /\ idx' = 1
    /\ pc' = "persist"
    /\ UNCHANGED << db, batch, report, errors, processed, result, outcome, entry >>
    /\ UNCHANGED jobVars
    /\ UNCHANGED handlerVars
    /\ UNCHANGED resolverVars
    /\ UNCHANGED txVars

\* The second loop: one save() and tags.set() per step, inside the block.
SaveNext ==
    /\ pc = "persist"
    /\ idx <= Len(processed)
    /\ work' = persist_one(processed[idx], report, work)
    /\ idx' = idx + 1
    /\ UNCHANGED << db, batch, report, pc, errors, processed, result, outcome, entry >>
    /\ UNCHANGED jobVars
    /\ UNCHANGED handlerVars
    /\ UNCHANGED resolverVars
    /\ UNCHANGED txVars

\* save() or tags.set() raises inside the block: rollback, "except" branch.
SaveFails ==
    /\ pc = "persist"
    /\ idx <= Len(processed)
    /\ db' = atomic_rollback(db, persist_one(processed[idx], report, work))
    /\ work' = db'
    /\ result' = save_failed_result(processed)
    /\ outcome' = "rolled_back"
    /\ pc' = "returned"
    /\ UNCHANGED << batch, report, idx, errors, processed, entry >>
    /\ UNCHANGED jobVars
    /\ UNCHANGED handlerVars
    /\ UNCHANGED resolverVars
    /\ UNCHANGED txVars

\* The block is left normally: commit, success result.
Commit ==
    /\ pc = "persist"
    /\ idx > Len(processed)
    /\ db' = work
    /\ result' = success_result(processed)
    /\ outcome' = "saved"
    /\ pc' = "returned"
    /\ UNCHANGED << batch, report, idx, errors, processed, work, entry >>
    /\ UNCHANGED jobVars
    /\ UNCHANGED handlerVars
    /\ UNCHANGED resolverVars
    /\ UNCHANGED txVars

JobIdle ==
    /\ job = NoJob
    /\ file = NoFile
    /\ scheduled = 0
    /\ resets = 0
    /\ queue = 0
    /\ workers = [w \in Workers |-> IdleWorker]
    /\ clock = 0

\* process_transactions is called with any batch, report and database.
InitBatch ==
    /\ db \in InitialStores
    /\ batch \in SeqsUpTo(Drafts, MaxBatch)
    /\ report \in Reports
    /\ pc = "validate"
    /\ idx = 1
    /\ errors = << >>
    /\ processed = << >>
    /\ work = db
    /\ result = NoResult
    /\ outcome = ""
    /\ entry = db
    /\ JobIdle
    /\ TxIdle
    /\ HandlerIdle
    /\ ResolverIdle

\* process_transactions is called again with the same drafts and report,
\* on the database as the earlier call left it (the file is imported again).
ProcessAgain ==
    /\ pc = "returned"
    /\ batch # << >>
    /\ Len(db.transactions) <= (MaxRuns - 1) * Len(batch)
    /\ pc' = "validate"
    /\ idx' = 1
    /\ errors' = << >>
    /\ processed' = << >>
    /\ work' = db
    /\ result' = NoResult
    /\ outcome' = ""
    /\ entry' = db
    /\ UNCHANGED << db, batch, report >>
    /\ UNCHANGED jobVars
    /\ UNCHANGED handlerVars
    /\ UNCHANGED resolverVars
    /\ UNCHANGED txVars

NextBatch ==
    ValidateNext \/ Reject \/ BeginAtomic \/ SaveNext \/ SaveFails \/ Commit \/ ProcessAgain

SpecBatch == InitBatch /\ [][NextBatch]_vars

\* ------------------------------------------------------ the job machine

\* The files a job can be created for: a JSON list of any of these rows,
\* and an XLSX no handler accepts.
JobFiles ==
    LET
        \* The rows the files of the job machine are made of: one without
        \* hints, and one with a credit-card hint, which is valid unless the job
        \* carries a default account.
        JobRows ==
            { Row("2024-01-05", "50.5", "", "Pix", ""),
              Row("2024-01-05", "50.5", "", "Pix", "Visa") }
    IN
    { File("stmt.json", "ok", "json", b) : b \in SeqsUpTo(JobRows, MaxRows) }
    \cup { File("stmt.xlsx", "ok", "other", << >>) }

\* CSVImportSerializer.validate: at most one of account_id, credit_card_id.
JobDefaults ==
    { d \in [account : {NoId, 1}, credit_card : {NoId, 1}] :
        ~(d.account # NoId /\ d.credit_card # NoId) }


\* CSVImportView.post: the file is stored, the job is created in SENT and
\* one task is scheduled.
CreateJob ==
    /\ ~job.exists
    /\ \E f \in JobFiles, d \in JobDefaults :
         /\ file' = f
         /\ job' = [ NoJob EXCEPT !.exists = TRUE, !.status = "SENT",
                                   !.file_name = f.name, !.account = d.account,
                                   !.credit_card = d.credit_card ]
    /\ scheduled' = scheduled + 1
    /\ queue' = queue + 1
    /\ UNCHANGED << db, resets, workers, clock >>
    /\ UNCHANGED batchVars
    /\ UNCHANGED txVars
    /\ UNCHANGED handlerVars
    /\ UNCHANGED resolverVars

\* ImportedReportAdmin.rerun_import on the job: reset to SENT, clear
\* failed_reason, schedule one task.
RerunImport ==
    /\ job.exists
    /\ scheduled < MaxTasks
    /\ job' = save_update_fields(job,
                [job EXCEPT !.status = "SENT", !.failed_reason = NullReason], RerunFields)
    /\ scheduled' = scheduled + 1
    /\ resets' = resets + 1
    /\ queue' = queue + 1
    /\ UNCHANGED << db, file, workers, clock >>
    /\ UNCHANGED batchVars
    /\ UNCHANGED txVars
    /\ UNCHANGED handlerVars
    /\ UNCHANGED resolverVars

\* process_import_task is sent again for the job by the task runner or
\* another caller, without a reset.
CallAgain ==
    /\ job.exists
    /\ scheduled < MaxTasks
    /\ scheduled' = scheduled + 1
    /\ queue' = queue + 1
    /\ UNCHANGED << db, job, file, resets, workers, clock >>
    /\ UNCHANGED batchVars
    /\ UNCHANGED txVars
    /\ UNCHANGED handlerVars
    /\ UNCHANGED resolverVars

\* process_import_task is picked up by a worker; process_import_report
\* loads the ImportedReport.  The workers are interchangeable: the message
\* goes to the first idle one.
TaskStart(w) ==
    /\ queue > 0
    /\ workers[w].pc = "idle"
    /\ \A v \in Workers : v < w => workers[v].pc # "idle"
    /\ job.exists
    /\ queue' = queue - 1
    /\ workers' = [workers EXCEPT ![w] = [IdleWorker EXCEPT !.pc = "mark", !.mem = job,
                                                         !.loaded_status = job.status]]
    /\ UNCHANGED << db, job, file, scheduled, resets, clock >>
    /\ UNCHANGED batchVars
    /\ UNCHANGED txVars
    /\ UNCHANGED handlerVars
    /\ UNCHANGED resolverVars

\* The status PROCESSING set on the object in memory only.
MarkProcessing_unsaved(w) ==
    /\ workers[w].pc = "mark"
    /\ workers' = [workers EXCEPT ![w].pc = "import", ![w].mem.status = "PROCESSING"]
    /\ UNCHANGED << db, job, file, scheduled, resets, queue, clock >>
    /\ UNCHANGED batchVars
    /\ UNCHANGED txVars
    /\ UNCHANGED handlerVars
    /\ UNCHANGED resolverVars

\* status = PROCESSING; save(update_fields=["status", "updated_at"]).
MarkProcessing(w) ==
    /\ workers[w].pc = "mark"
    /\ LET mem == [workers[w].mem EXCEPT !.status = "PROCESSING"]
       IN /\ job' = save_update_fields(job, mem, { "status" })
          /\ workers' = [workers EXCEPT ![w].pc = "import", ![w].mem = mem]
    /\ UNCHANGED << db, file, scheduled, resets, queue, clock >>
    /\ UNCHANGED batchVars
    /\ UNCHANGED txVars
    /\ UNCHANGED handlerVars
    /\ UNCHANGED resolverVars

\* get_file_path and import_transactions: the file is parsed and the batch
\* processed, or an exception leaves the try block.
Import(w) ==
    LET
        \* The in-memory ImportedReport as the processor reads it.
        as_report(mem) ==
            [ present |-> TRUE, account |-> mem.account, credit_card |-> mem.credit_card,
              file_name |-> mem.file_name ]
    IN
    /\ workers[w].pc = "import"
    /\ \E readable \in BOOLEAN, failAt \in 0..Len(file.rows) :
         \E r \in { import_transactions(file, as_report(workers[w].mem), Owner, db,
                                        readable, failAt) } :
            /\ db' = r.store
            /\ workers' = [workers EXCEPT
                 ![w].pc = IF r.raised THEN "except" ELSE "save",
                 ![w].result = r.result,
                 ![w].handler_type = r.handler_type,
                 ![w].exc = r.exc]
    /\ UNCHANGED << job, file, scheduled, resets, queue, clock >>
    /\ UNCHANGED batchVars
    /\ UNCHANGED txVars
    /\ UNCHANGED handlerVars
    /\ UNCHANGED resolverVars

\* The results are assigned and saved; process_import_report returns.
SaveResults(w) ==
    LET
        \* Model.save(update_fields=...): the listed columns of the row take the
        \* values of the in-memory object, the others keep the stored ones.
        ResultFields == { "status", "success_count", "error_count", "errors",
                          "handler_type", "failed_reason", "processed_at" }
    IN
    /\ workers[w].pc = "save"
    /\ clock' = clock + 1
    /\ LET mem == record_results(workers[w].mem, workers[w].result,
                                 workers[w].handler_type, clock')
       IN job' = save_update_fields(job, mem, ResultFields)
    /\ workers' = [workers EXCEPT ![w] = [IdleWorker EXCEPT !.ended = "returned"]]
    /\ UNCHANGED << db, file, scheduled, resets, queue >>
    /\ UNCHANGED batchVars
    /\ UNCHANGED txVars
    /\ UNCHANGED handlerVars
    /\ UNCHANGED resolverVars

\* The except branch: FAILED with the exception text is saved and the
\* exception is raised again, through process_import_task.
HandleException(w) ==
    LET ExceptionFields == { "status", "failed_reason", "processed_at" }
    IN
    /\ workers[w].pc = "except"
    /\ clock' = clock + 1
    /\ LET mem == record_exception(workers[w].mem, workers[w].exc, clock')
       IN job' = save_update_fields(job, mem, ExceptionFields)
    /\ workers' = [workers EXCEPT ![w] =
                     [IdleWorker EXCEPT !.ended = "raised", !.exc = workers[w].exc]]
    /\ UNCHANGED << db, file, scheduled, resets, queue >>
    /\ UNCHANGED batchVars
    /\ UNCHANGED txVars
    /\ UNCHANGED handlerVars
    /\ UNCHANGED resolverVars

\* No process_transactions call of its own is in progress in the job machine.
BatchIdle ==
    /\ batch = << >>
    /\ report = NoReport
    /\ pc = "returned"
    /\ idx = 1
    /\ errors = << >>
    /\ processed = << >>
    /\ work = db
    /\ result = NoResult
    /\ outcome = ""
    /\ entry = db

Init ==
    /\ db = EmptyStore
    /\ BatchIdle
    /\ JobIdle
    /\ TxIdle
    /\ HandlerIdle
    /\ ResolverIdle

Next ==
    \/ CreateJob
    \/ RerunImport
    \/ CallAgain
    \/ \E w \in Workers : TaskStart(w)
    \/ \E w \in Workers : MarkProcessing(w)
    \/ \E w \in Workers : Import(w)
    \/ \E w \in Workers : SaveResults(w)
    \/ \E w \in Workers : HandleException(w)

Spec == Init /\ [][Next]_vars

\* ------------------------------------------------------- fingerprinting
\* A Decimal keeps its digits: units and the fraction digits as written
\* (50.5 and 50.50 are equal amounts with different digits).
Dec(units, frac) == [units |-> units, frac |-> frac]

\* The amounts a handler or the API hands to Transaction(...).
Amounts == { Dec(50, << 5 >>), Dec(50, << 5, 0 >>), Dec(51, << 0, 0 >>) }

Descriptions ==
    LET
        \* description: None, or a text.
        DescNone == [none |-> TRUE, text |-> ""]
        Desc(t) == [none |-> FALSE, text |-> t]
    IN  { DescNone, Desc(""), Desc("rent") }

\* occurred_at values.
Dates == { [y |-> 2024, m |-> 1, d |-> 5], [y |-> 2024, m |-> 11, d |-> 5] }

\* str() of one decimal digit.
DigitStr(n) ==
    CASE n = 0 -> "0" [] n = 1 -> "1" [] n = 2 -> "2" [] n = 3 -> "3" [] n = 4 -> "4"
      [] n = 5 -> "5" [] n = 6 -> "6" [] n = 7 -> "7" [] n = 8 -> "8" [] n = 9 -> "9"

RECURSIVE NatStr(_)
\* str() of a non-negative integer.
NatStr(n) == IF n < 10 THEN DigitStr(n) ELSE NatStr(n \div 10) \o DigitStr(n % 10)

RECURSIVE DigitsStr(_)
\* The digits of a fraction, in order.
DigitsStr(ds) == IF ds = << >> THEN "" ELSE DigitStr(Head(ds)) \o DigitsStr(Tail(ds))


\* Transaction._calculate_hash.
calculate_hash(tx) ==
    LET
        \* str(Decimal): the digits as the Decimal holds them.
        str_decimal(a) ==
            IF a.frac = << >> THEN NatStr(a.units) ELSE NatStr(a.units) \o "." \o DigitsStr(a.frac)
        \* date.isoformat(): YYYY-MM-DD, zero padded.
        isoformat(o) ==
            NatStr(o.y) \o "-" \o (IF o.m < 10 THEN "0" ELSE "") \o NatStr(o.m)
                        \o "-" \o (IF o.d < 10 THEN "0" ELSE "") \o NatStr(o.d)
        \* hashlib.md5(...).hexdigest(), taken as free of collisions on the
        \* inputs of the model.
        md5_hexdigest(input) == "md5(" \o input \o ")"
    IN
    md5_hexdigest(str_decimal(tx.amount) \o "|"
                  \o (IF tx.description.none THEN "" ELSE tx.description.text) \o "|"
                  \o isoformat(tx.occurred_at))

\* The amount column (max_digits=12, decimal_places=2) holds two
\* fraction digits, as does a DRF DecimalField after validation.
quantize(a) ==
    Dec(a.units, << (IF Len(a.frac) >= 1 THEN a.frac[1] ELSE 0),
                    (IF Len(a.frac) >= 2 THEN a.frac[2] ELSE 0) >>)


\* A handler (or the API) builds an unsaved Transaction.
NewTransaction ==
    /\ \E a \in Amounts, t \in Descriptions, o \in Dates :
         instance' = [ pk |-> 0, amount |-> a, description |-> t,
                       occurred_at |-> o, hash |-> "" ]
    /\ UNCHANGED << db, stored >>
    /\ UNCHANGED batchVars
    /\ UNCHANGED jobVars
    /\ UNCHANGED handlerVars
    /\ UNCHANGED resolverVars

\* Transaction.save: full_clean, the hash is recomputed, the row is
\* inserted (pk unset) or updated.
SaveTransaction ==
    LET
        \* The row super().save() writes for the instance.
        as_row(tx) ==
            [ amount |-> quantize(tx.amount), description |-> tx.description,
              occurred_at |-> tx.occurred_at, hash |-> tx.hash ]
    IN
    /\ instance # NoInstance
    /\ instance.pk = 0 => Len(stored) < MaxStored
    /\ LET hashed == [instance EXCEPT !.hash = calculate_hash(instance)]
       IN IF instance.pk = 0
          THEN /\ stored' = Append(stored, as_row(hashed))
               /\ instance' = [hashed EXCEPT !.pk = Len(stored) + 1]
          ELSE /\ stored' = [stored EXCEPT ![instance.pk] = as_row(hashed)]
               /\ instance' = hashed
    /\ UNCHANGED db
    /\ UNCHANGED batchVars
    /\ UNCHANGED jobVars
    /\ UNCHANGED handlerVars
    /\ UNCHANGED resolverVars

\* TransactionViewSet.get_object: a saved row is loaded.
LoadTransaction ==
    /\ \E k \in 1..Len(stored) :
         instance' = [ pk |-> k, amount |-> stored[k].amount,
                       description |-> stored[k].description,
                       occurred_at |-> stored[k].occurred_at, hash |-> stored[k].hash ]
    /\ UNCHANGED << db, stored >>
    /\ UNCHANGED batchVars
    /\ UNCHANGED jobVars
    /\ UNCHANGED handlerVars
    /\ UNCHANGED resolverVars

\* TransactionViewSet.update / partial_update: the serializer sets one of
\* the three values on the loaded instance (saved by SaveTransaction).
EditTransaction ==
    /\ instance.pk # 0
    /\ \/ \E a \in Amounts : instance' = [instance EXCEPT !.amount = quantize(a)]
       \/ \E t \in Descriptions : instance' = [instance EXCEPT !.description = t]
       \/ \E o \in Dates : instance' = [instance EXCEPT !.occurred_at = o]
    /\ UNCHANGED << db, stored >>
    /\ UNCHANGED batchVars
    /\ UNCHANGED jobVars
    /\ UNCHANGED handlerVars
    /\ UNCHANGED resolverVars

InitTx ==
    /\ db = EmptyStore
    /\ BatchIdle
    /\ JobIdle
    /\ TxIdle
    /\ HandlerIdle
    /\ ResolverIdle

NextTx == NewTransaction \/ SaveTransaction \/ LoadTransaction \/ EditTransaction

SpecTx == InitTx /\ [][NextTx]_vars

\* ======================================================= handlers on files
MaxFileRows == 2     \* data rows of a file given to a handler or a factory


\* The files of one name and some layouts: readable ones with any rows,
\* and a missing, a garbled and an unreadable one.
FilesOf(name, layouts) ==
    { File(name, "ok", l, rows) : l \in layouts, rows \in SeqsUpTo(FileRows, MaxFileRows) }
    \cup { File(name, st, "other", << >>) : st \in { "missing", "garbled", "denied" } }

\* A handler is instantiated and given a file.
InitHandler ==
    LET
        \* The layouts the reader of a handler can be given: its own, those of
        \* the handlers that read a file the same way, and an unrelated one.
        LayoutsFor(h) ==
            CASE h = "BancoInterBankStatementCsvHandler" -> { "inter_statement", "other" }
              [] h = "BBBankStatementXlsxHandler" -> { "bb", "other" }
              [] h = "DefaultJsonHandler" -> { "json", "json_no_total", "json_object" }
              [] OTHER -> { "inter_card", "default", "other" }
        \* The file name a handler is used for.
        NameFor(h) ==
            CASE h = "BBBankStatementXlsxHandler" -> "stmt.xlsx"
              [] h = "DefaultJsonHandler" -> "stmt.json"
              [] OTHER -> "stmt.csv"
    IN
    /\ db = EmptyStore
    /\ BatchIdle
    /\ JobIdle
    /\ TxIdle
    /\ handler \in Handlers
    /\ srcfile \in FilesOf(NameFor(handler), LayoutsFor(handler))
    /\ hpc = "start"
    /\ detected = NoDetection
    /\ parsed = NoParse
    /\ raised = NoExc
    /\ summary = NoImport
    /\ ResolverIdle

\* handler.can_handle_file(path).
CanHandleFile ==
    /\ hpc = "start"
    /\ \E r \in { can_handle_file(handler, srcfile) } :
         /\ detected' = r
         /\ raised' = r.exc
         /\ hpc' = IF r.exc # NoExc THEN "raised" ELSE "detected"
    /\ UNCHANGED << db, srcfile, handler, parsed, summary >>
    /\ UNCHANGED batchVars
    /\ UNCHANGED jobVars
    /\ UNCHANGED txVars
    /\ UNCHANGED resolverVars

\* handler.parse_transactions_from_file(path, user).
ParseFile ==
    /\ hpc \in { "detected", "selected" }
    /\ \E r \in { parse_transactions_from_file(handler, srcfile) } :
         /\ parsed' = r
         /\ raised' = r.exc
         /\ hpc' = IF r.exc # NoExc THEN "raised" ELSE "parsed"
    /\ UNCHANGED << db, srcfile, handler, detected, summary >>
    /\ UNCHANGED batchVars
    /\ UNCHANGED jobVars
    /\ UNCHANGED txVars
    /\ UNCHANGED resolverVars

NextHandler == CanHandleFile \/ ParseFile

SpecHandler == InitHandler /\ [][NextHandler]_vars

\* ================================================== import_transactions


\* ImportService.import_transactions is called on the stored file.
InitImport ==
    LET
        \* The files an import can be started on.
        ImportFiles ==
            FilesOf("stmt.csv", { "inter_statement", "inter_card", "default", "other" })
            \cup FilesOf("stmt.xlsx", { "bb", "other" })
            \cup FilesOf("stmt.json", { "json", "json_no_total", "json_object" })
    IN
    /\ db = EmptyStore
    /\ BatchIdle
    /\ JobIdle
    /\ TxIdle
    /\ handler = NoHandler
    /\ srcfile \in ImportFiles
    /\ hpc = "import"
    /\ detected = NoDetection
    /\ parsed = NoParse
    /\ raised = NoExc
    /\ summary = NoImport
    /\ ResolverIdle

\* factory.create_handler(file_path).
CreateHandler ==
    /\ hpc = "import"
    /\ \E r \in { create_handler(srcfile) } :
         /\ handler' = r.handler
         /\ raised' = r.exc
         /\ hpc' = IF r.exc # NoExc THEN "raised" ELSE "selected"
    /\ UNCHANGED << db, srcfile, detected, parsed, summary >>
    /\ UNCHANGED batchVars
    /\ UNCHANGED jobVars
    /\ UNCHANGED txVars
    /\ UNCHANGED resolverVars

\* processor.process_transactions(transactions); the result is returned.
ProcessParsed ==
    LET
        \* The ImportedReport of the job: without defaults.
        ImportReport == [present |-> TRUE, account |-> NoId, credit_card |-> NoId, file_name |-> FileName]
    IN
    /\ hpc = "parsed"
    /\ \E failAt \in 0..Len(parsed.transactions) :
         \E r \in { process_transactions(to_drafts(parsed.transactions), ImportReport,
                                         Owner, db, failAt) } :
            /\ db' = r.store
            /\ summary' = r.result
    /\ hpc' = "returned"
    /\ UNCHANGED << srcfile, handler, detected, parsed, raised >>
    /\ UNCHANGED batchVars
    /\ UNCHANGED jobVars
    /\ UNCHANGED txVars
    /\ UNCHANGED resolverVars

NextImport == CreateHandler \/ ParseFile \/ ProcessParsed

SpecImport == InitImport /\ [][NextImport]_vars

\* ================================================ concurrent import jobs
\* Import jobs of the same user run process_transactions on different
\* workers at the same time.  _match_category_by_name is two statements on
\* the shared tables, outside any transaction or lock: the lookup
\* filter(...).first() and, when it found nothing, objects.create(...).

\* Job j enters _match_category_by_name for an expense category name.
StartMatch(j) ==
    /\ lookups[j].pc \in { "idle", "returned" }
    /\ lookups[j].calls < MaxMatches
    /\ \E name \in { "Food", "food" } :
         lookups' = [lookups EXCEPT ![j] =
                       [pc |-> "filter", name |-> name, found |-> NoId, category |-> NoId,
                        calls |-> lookups[j].calls + 1]]
    /\ UNCHANGED db
    /\ UNCHANGED batchVars
    /\ UNCHANGED jobVars
    /\ UNCHANGED txVars
    /\ UNCHANGED handlerVars

\* Category.objects.filter(user, name__iexact, transaction_type).first();
\* "if category: return category".
FilterFirst(j) ==
    /\ lookups[j].pc = "filter"
    /\ LET Hit(c) == /\ c.user = Owner
                     /\ Lower(c.name) = Lower(lookups[j].name)
                     /\ c.ttype = "expense"
           found == FirstRow({ i \in 1..Len(db.categories) : Hit(db.categories[i]) })
       IN lookups' = [lookups EXCEPT ![j].found = found,
                                     ![j].category = found,
                                     ![j].pc = IF found # NoId THEN "returned" ELSE "create"]
    /\ UNCHANGED db
    /\ UNCHANGED batchVars
    /\ UNCHANGED jobVars
    /\ UNCHANGED txVars
    /\ UNCHANGED handlerVars

\* Category.objects.create(user, name, transaction_type); return category.
CreateCategory(j) ==
    /\ lookups[j].pc = "create"
    /\ db' = [db EXCEPT !.categories =
                create_row(@, [user |-> Owner, name |-> lookups[j].name, ttype |-> "expense"])]
    /\ lookups' = [lookups EXCEPT ![j].category = Len(db'.categories), ![j].pc = "returned"]
    /\ UNCHANGED batchVars
    /\ UNCHANGED jobVars
    /\ UNCHANGED txVars
    /\ UNCHANGED handlerVars

InitResolve ==
    /\ db \in InitialStores
    /\ BatchIdle
    /\ JobIdle
    /\ TxIdle
    /\ HandlerIdle
    /\ ResolverIdle

NextResolve ==
    \E j \in Workers : StartMatch(j) \/ FilterFirst(j) \/ CreateCategory(j)

SpecResolve == InitResolve /\ [][NextResolve]_vars

\* ===================================================== process_transactions
\* Whether draft d, resolved under the report, is rejected by the first pass.
RowFails(d) ==
    validation_pass([store |-> EmptyStore, errors |-> << >>, processed |-> << >>],
                    d, 1, report, Owner).errors # << >>

\* The rows the first pass has already gone through.
RowsValidated == IF pc = "validate" THEN 1..(idx - 1) ELSE 1..Len(batch)

\* C1: all-or-nothing.  When process_transactions has returned for a batch
\* in which at least one draft fails resolution or validation, the result
\* has success_count 0 and the Transaction table (and the tag links) hold
\* no row of the batch: they are as they were at the call.
AllOrNothing ==
    (pc = "returned" /\ \E i \in 1..Len(batch) : RowFails(batch[i]))
        => /\ result.success_count = 0
           /\ outcome = "rejected"
           /\ db.transactions = entry.transactions
           /\ db.tx_tags = entry.tx_tags

\* A batch of two with one valid and one invalid row has been rejected.
AllOrNothingWitness ==
    /\ pc = "returned"
    /\ outcome = "rejected"
    /\ Len(batch) = 2
    /\ Len(processed) = 1
    /\ \E i \in 1..2 : RowFails(batch[i])

\* C2: a save (or tag assignment) that fails inside the atomic block rolls
\* back every row and tag link written in it, and the result is
\* success_count 0, error_count = batch size, one synthesized error; at no
\* time does the committed table hold a part of the batch.
PersistenceAtomic ==
    /\ outcome = "rolled_back"
         => /\ db.transactions = entry.transactions
            /\ db.tx_tags = entry.tx_tags
            /\ result.success_count = 0
            /\ result.error_count = Len(batch)
            /\ Len(result.errors) = 1
            /\ result.errors[1].msg = { SaveMsg }
    /\ Len(db.transactions) \in
         { Len(entry.transactions), Len(entry.transactions) + Len(batch) }

\* The second save of a batch failed after the first row, with its tags,
\* had been written inside the block.
PersistenceAtomicWitness ==
    /\ outcome = "rolled_back"
    /\ idx = 2
    /\ Len(batch) = 2
    /\ processed[1].has_tags

\* C6 (as claimed): up to the decision, and after a rejection, the tables
\* are exactly as they were at the call.
ValidationWritesNothing ==
    (pc = "validate" \/ outcome = "rejected") => db = entry

\* Whether a draft ends entity resolution with both links set.
BothLinked(d) ==
    LET links == resolve_links(extract_metadata(d), report, Owner)
    IN links.account # NoId /\ links.credit_card # NoId

\* C10: mutual exclusivity.  Every validated draft that ended resolution
\* with both an account and a credit card has a row error carrying the
\* exclusivity message and is not among the processed transactions, and no
\* stored transaction references both.
MutualExclusivity ==
    /\ \A i \in RowsValidated :
         BothLinked(batch[i])
            => /\ \E k \in 1..Len(errors) : errors[k].row = i /\ BothMsg \in errors[k].msg
               /\ \A k \in 1..Len(processed) : processed[k].row # i
    /\ \A k \in 1..Len(db.transactions) :
         ~(db.transactions[k].account # NoId /\ db.transactions[k].credit_card # NoId)

\* A draft with a card hint under a job whose default is an account was
\* rejected: the links came from a mix of file hint and job default.
MutualExclusivityWitness ==
    /\ pc = "returned"
    /\ report.account # NoId
    /\ \E i \in 1..Len(batch) :
         /\ batch[i].card # NoHint
         /\ batch[i].acct = NoHint
         /\ BothLinked(batch[i])
         /\ \E k \in 1..Len(errors) : errors[k].row = i

\* ============================================================ the job
Terminal == { "IMPORTED", "FAILED" }

\* Worker w takes the step that ends its run by returning / by raising.
Returns(w) == workers[w].pc = "save" /\ workers'[w].pc = "idle"
Raises(w) == workers[w].pc = "except" /\ workers'[w].pc = "idle"

\* C3: when process_import_report returns, the saved status is IMPORTED
\* iff the result has error_count = 0 and success_count > 0 and FAILED
\* otherwise, failed_reason carries the error count when error_count > 0
\* and is the nothing-imported text when both counts are 0, and the saved
\* success_count, error_count and errors are those of the result.
TerminalStatusRule ==
    [][ \A w \in Workers :
          Returns(w) =>
            LET r == workers[w].result
            IN /\ (job'.status = "IMPORTED") <=> (r.error_count = 0 /\ r.success_count > 0)
               /\ job'.status \in Terminal
               /\ r.error_count > 0 =>
                    /\ job'.failed_reason.kind = "Import completed with errors"
                    /\ job'.failed_reason.count = r.error_count
               /\ (r.error_count = 0 /\ r.success_count = 0) =>
                    job'.failed_reason = NothingImportedReason
               /\ job'.success_count = r.success_count
               /\ job'.error_count = r.error_count
               /\ job'.errors = r.errors ]_vars

\* A run has returned for a batch with a row error: FAILED, with the count.
TerminalStatusRuleWitness ==
    /\ \E w \in Workers : workers[w].ended = "returned"
    /\ job.status = "FAILED"
    /\ job.error_count > 0
    /\ job.failed_reason = errors_reason(job.error_count)
    /\ Len(job.errors) = job.error_count

\* C4 (as claimed): the job is created in SENT and its status changes only
\* SENT -> PROCESSING, PROCESSING -> IMPORTED, PROCESSING -> FAILED, or
\* to SENT.
StatusOnlyAlongEdges ==
    [][ /\ ~job.exists => job'.status \in { "", "SENT" }
        /\ (job.exists /\ job'.status # job.status) =>
              \/ job'.status = "SENT"
              \/ << job.status, job'.status >> \in
                    { << "SENT", "PROCESSING" >>, << "PROCESSING", "IMPORTED" >>,
                      << "PROCESSING", "FAILED" >> } ]_vars

\* C4 (amended): the status becomes SENT only by the creation or the
\* reset, which schedule a task; it becomes PROCESSING only by the first
\* write of a run, whatever it was; it becomes IMPORTED or FAILED only by
\* the closing write of a run that wrote PROCESSING before.
StatusWriters ==
    [][ job'.status # job.status =>
          \/ /\ job'.status = "SENT"
             /\ ~job.exists \/ resets' = resets + 1
          \/ /\ job'.status = "PROCESSING"
             /\ \E w \in Workers : workers[w].pc = "mark" /\ workers'[w].pc = "import"
          \/ /\ job'.status \in Terminal
             /\ \E w \in Workers : /\ Returns(w) \/ Raises(w)
                                   /\ workers[w].mem.status = "PROCESSING" ]_vars

\* A run has been started on a job that is IMPORTED and was not reset: its
\* first write will put PROCESSING over IMPORTED.
StatusWritersWitness ==
    /\ job.status = "IMPORTED"
    /\ \E w \in Workers : workers[w].pc = "mark" /\ workers[w].loaded_status = "IMPORTED"

OverwriteReflectsLatestRun ==
    [][ \A w \in Workers :
          workers[w].loaded_status \in Terminal =>
            /\ Returns(w) =>
                 LET r == workers[w].result
                     imported == r.error_count = 0 /\ r.success_count > 0
                 IN /\ job'.status = IF imported THEN "IMPORTED" ELSE "FAILED"
                    /\ job'.success_count = r.success_count
                    /\ job'.error_count = r.error_count
                    /\ job'.errors = r.errors
                    /\ job'.handler_type = workers[w].handler_type
                    /\ job'.failed_reason =
                         IF imported THEN NullReason
                         ELSE IF r.error_count > 0 THEN errors_reason(r.error_count)
                         ELSE NothingImportedReason
            /\ Raises(w) =>
                 /\ job'.status = "FAILED"
                 /\ job'.failed_reason = exception_reason(workers[w].exc)
                 /\ job'.success_count = 0
                 /\ job'.error_count = 0
                 /\ job'.errors = << >> ]_vars

\* The step is the re-run action on the job.
IsRerun == resets' = resets + 1

\* C8: the re-run action, in any status, sets the status to SENT and
\* failed_reason to null, leaves success_count, error_count, errors,
\* handler_type and processed_at as they are and schedules exactly one
\* task; no other step of an existing job makes the status SENT.
RerunFrame ==
    [][ /\ IsRerun =>
             /\ job'.status = "SENT"
             /\ job'.failed_reason = NullReason
             /\ job'.success_count = job.success_count
             /\ job'.error_count = job.error_count
             /\ job'.errors = job.errors
             /\ job'.handler_type = job.handler_type
             /\ job'.processed_at = job.processed_at
             /\ queue' = queue + 1
        /\ (job.exists /\ job'.status = "SENT" /\ job.status # "SENT") => IsRerun ]_vars

\* A FAILED job has been reset: SENT, no reason, the old counts in place.
RerunFrameWitness ==
    /\ job.status = "SENT"
    /\ job.failed_reason = NullReason
    /\ job.error_count > 0
    /\ job.processed_at > 0
    /\ resets > 0
    /\ queue > 0

\* C9 (as claimed): at most one run of the job is in flight, and a run
\* closes over the PROCESSING it wrote itself: not over a later reset, nor
\* while another run has written since.
SupersededOnlyWhenTerminal ==
    /\ [](Cardinality({ w \in Workers : workers[w].pc # "idle" }) <= 1)
    /\ [][ \A w \in Workers :
             (Returns(w) \/ Raises(w)) =>
                /\ job.status = "PROCESSING"
                /\ \A v \in Workers \ { w } : workers[v].pc \in { "idle", "mark" } ]_vars

\* ================================================= claims of later sections
\* C11: every transaction that clean() / save() accepted has
\* 1 <= installment_number <= installments_total, whatever non-negative
\* values the two fields were given.
InstallmentsInRange ==
    \A i \in 1..Len(work.transactions) :
        /\ 1 <= work.transactions[i].inumber
        /\ work.transactions[i].inumber <= work.transactions[i].itotal

\* The rows of a fixture table that belong to the importing user.
OwnerRows(table) == { r \in table : r.user = Owner }

\* The id the resolution rule gives identifier x: the owner's row with
\* that numeric id, else the owner's row with that name (case-insensitive),
\* else none.
LinkByRule(x, table) ==
    IF \E r \in OwnerRows(table) : r.id = ParseInt(x)
    THEN ParseInt(x)
    ELSE IF \E r \in OwnerRows(table) : Lower(r.name) = Lower(x)
    THEN (CHOOSE r \in OwnerRows(table) : Lower(r.name) = Lower(x)).id
    ELSE NoId

\* Draft d is valid once its account / credit-card hints are left out.
ValidWithoutLinks(d) ==
    validation_pass([store |-> EmptyStore, errors |-> << >>, processed |-> << >>],
                    [d EXCEPT !.acct = NoHint, !.card = NoHint], 1, NoReport, Owner).errors = << >>

FingerprintOfValues ==
    \A i, k \in 1..Len(stored) :
        ( /\ stored[i].amount = stored[k].amount
          /\ stored[i].description = stored[k].description
          /\ stored[i].occurred_at = stored[k].occurred_at )
        <=> stored[i].hash = stored[k].hash

\* ------------------------------------------------------------------ C15
\* The layouts a handler is written for.
OwnLayout(h) ==
    CASE h = "BancoInterBankStatementCsvHandler" -> "inter_statement"
      [] h = "BancoInterCreditCardCsvHandler" -> "inter_card"
      [] h = "BBBankStatementXlsxHandler" -> "bb"
      [] h = "DefaultCSVHandler" -> "default"
      [] OTHER -> "json"

\* C15: for every handler, can_handle_file never raises and has no side
\* effects: it returns (no exception leaves it), the database and the file
\* are as before, and for a missing, malformed or unreadable file and for
\* a file of another layout the answer is False.
CanHandleNeverRaises ==
    [][ hpc = "start" /\ hpc' # "start" =>
          /\ hpc' = "detected"
          /\ raised' = NoExc
          /\ detected'.exc = NoExc
          /\ db' = db
          /\ srcfile' = srcfile
          /\ (srcfile.state # "ok" \/ srcfile.layout # OwnLayout(handler))
               => ~detected'.result ]_vars

\* An unreadable file was probed and the answer was False.
CanHandleNeverRaisesWitness ==
    /\ hpc = "detected"
    /\ srcfile.state = "denied"
    /\ ~detected.result
    /\ raised = NoExc

\* ------------------------------------------------------------------ C17
RECURSIVE RowsParsed(_, _, _)
\* The transactions of the rows i..end of file f that handler h parses on
\* their own, in file order.
RowsParsed(h, f, i) ==
    IF i > Len(f.rows) THEN << >>
    ELSE IF parse_transaction_row(h, row_dict(f.layout, f.rows[i])).exc = NoExc
            /\ ~parse_transaction_row(h, row_dict(f.layout, f.rows[i])).skip
    THEN << parse_transaction_row(h, row_dict(f.layout, f.rows[i])).tx >>
         \o RowsParsed(h, f, i + 1)
    ELSE RowsParsed(h, f, i + 1)

\* C17: in every handler's parse_transactions_from_file, a data row that
\* fails its own parse (missing value, invalid date, invalid amount,
\* invalid type) is skipped and parsing continues: on a file that opens,
\* the call returns, with the transactions of all rows that parse.
FailingRowIsSkipped ==
    (hpc \in { "parsed", "raised" } /\ open_error(handler, srcfile) = NoExc)
        => /\ hpc = "parsed"
           /\ parsed.transactions = RowsParsed(handler, srcfile, 1)

\* ------------------------------------------------------------------ C19
\* The amount a dialect handler reads in a valor cell.
AmountRead(h, cell) ==
    IF h = "BancoInterCreditCardCsvHandler" THEN card_parse_amount(cell).value
    ELSE parse_amount(cell).value

\* The entry type the convention gives handler h for amount a.
TypeBySign(h, a) ==
    IF h = "BancoInterCreditCardCsvHandler"
    THEN (IF negative(a) THEN "INCOME" ELSE "EXPENSE")
    ELSE (IF negative(a) THEN "EXPENSE" ELSE "INCOME")

\* The row names no entry type of its own.
NoEntryType(h, row) ==
    h = "BBBankStatementXlsxHandler" => Lower(Strip(row.tipo)) \notin { "entrada", "saida" }

HandlerChosen == hpc # "import" /\ hpc # "idle"

\* C13: on a readable file each factory returns the first handler of its
\* list that accepts the file: the Banco Inter handler for a CSV in its
\* layout, the Banco do Brasil handler for an XLSX in its layout; when no
\* handler accepts, the CSV and JSON factories return their generic
\* handler and the XLSX factory fails with the no-handler error.
FirstMatchOrFallback ==
    (HandlerChosen /\ srcfile.state = "ok") =>
       CASE detect_file_format(srcfile.name) = "csv" ->
              handler = (IF srcfile.layout = "inter_card"
                         THEN "BancoInterCsvHandler" ELSE "DefaultCSVHandler")
         [] detect_file_format(srcfile.name) = "json" -> handler = "DefaultJsonHandler"
         [] OTHER ->
              IF srcfile.layout = "bb" THEN handler = "BBBankStatementXlsxHandler"
              ELSE handler = NoHandler /\ hpc = "raised" /\ raised = NoHandlerMsg

\* ------------------------------------------------------------------ C14
\* C14: in every factory an exception raised while the file is probed is
\* caught and treated as "cannot handle": the only exception that leaves
\* create_handler is the no-handler error of the XLSX factory, after all
\* its handlers declined.
DetectionNeverPropagates ==
    (hpc = "raised" /\ handler = NoHandler) =>
        /\ raised = NoHandlerMsg
        /\ detect_file_format(srcfile.name) = "xlsx"

\* ------------------------------------------------------------------ C16
\* Some row of the file makes its parser raise something other than
\* ValueError.
RowBreaksParse(h, f) ==
    \E i \in 1..Len(f.rows) :
        parse_transaction_row(h, row_dict(f.layout, f.rows[i])).exc \notin { NoExc, "ValueError" }

\* The file is one the import raises for: it cannot be read or parsed, no
\* XLSX handler accepts it, it is a CSV (whose header probe raises), its
\* JSON top level is no list, or a row breaks the parse.
FileRaises ==
    \/ srcfile.state # "ok"
    \/ detect_file_format(srcfile.name) = "csv"
    \/ detect_file_format(srcfile.name) = "xlsx" /\ srcfile.layout # "bb"
    \/ srcfile.layout = "json_object"
    \/ handler # NoHandler /\ RowBreaksParse(handler, srcfile)

\* Some parsed transaction fails validation.
SomeDraftInvalid == \E i \in 1..Len(parsed.transactions) : ~amount_ok(parsed.transactions[i].amount)

InvalidDrafts == { i \in 1..Len(parsed.transactions) : ~amount_ok(parsed.transactions[i].amount) }

Polarity(d) == IF d.ttype = "INCOME" THEN "income" ELSE "expense"

\* The rows of a table (their positions) that satisfy Same with each other
\* are at most one: no entity exists twice.
NoTwin(table, Same(_, _)) ==
    \A i, j \in 1..Len(table) : Same(table[i], table[j]) => i = j

SameCategory(a, b) == a.user = b.user /\ Lower(a.name) = Lower(b.name) /\ a.ttype = b.ttype
SameSubcategory(a, b) ==
    a.user = b.user /\ Lower(a.name) = Lower(b.name) /\ a.category = b.category
SameTag(a, b) == a.user = b.user /\ Lower(a.name) = Lower(b.name)

\* The transactions resolved so far by the running call and by the calls
\* before it: the processed list and the saved rows.
Resolved == { processed[i] : i \in 1..Len(processed) }
              \cup { db.transactions[i] : i \in 1..Len(db.transactions) }

\* C21: resolving the same category name, in any letter case, for the
\* same user and polarity any number of times in sequence (within one
\* call of process_transactions or across calls) gives the same category
\* every time and leaves at most one such row; likewise for a
\* subcategory under one parent and for a tag.
ResolutionIdempotent ==
    /\ NoTwin(db.categories, SameCategory)
    /\ NoTwin(db.subcategories, SameSubcategory)
    /\ NoTwin(db.tags, SameTag)
    /\ \A p, q \in Resolved :
         LET dp == batch[p.row]
             dq == batch[q.row]
         IN /\ (dp.cat # NoHint /\ Lower(dp.cat) = Lower(dq.cat) /\ Polarity(dp) = Polarity(dq))
                 => /\ p.category = q.category
                    /\ p.category \in 1..Len(db.categories)
                    /\ SameCategory(db.categories[p.category],
                                    [user |-> Owner, name |-> dp.cat, ttype |-> Polarity(dp)])
            /\ (dp.sub # NoHint /\ Lower(dp.sub) = Lower(dq.sub) /\ p.category = q.category
                  /\ p.category # NoId)
                 => /\ p.subcategory = q.subcategory
                    /\ p.subcategory \in 1..Len(db.subcategories)
                    /\ SameSubcategory(db.subcategories[p.subcategory],
                                       [user |-> Owner, name |-> dp.sub, category |-> p.category])
            /\ \A k \in 1..Len(p.tags_to_set), l \in 1..Len(q.tags_to_set) :
                 LET np == SelectSeq(dp.tags, LAMBDA n : n # "")[k]
                     nq == SelectSeq(dq.tags, LAMBDA n : n # "")[l]
                 IN Lower(np) = Lower(nq) =>
                      /\ p.tags_to_set[k] = q.tags_to_set[l]
                      /\ SameTag(db.tags[p.tags_to_set[k]], [user |-> Owner, name |-> np])

\* The same batch was committed twice on a store where the other user
\* holds the same names: the two runs of a row with all three hints share
\* one category, one subcategory and one tag, each created once.
ResolutionIdempotentWitness ==
    /\ pc = "returned"
    /\ outcome = "saved"
    /\ Len(db.categories) = 2
    /\ db.categories[1].user = Stranger
    /\ \E i, j \in 1..Len(db.transactions) :
         /\ i < j
         /\ db.transactions[i].row = db.transactions[j].row
         /\ db.transactions[i].category = 2
         /\ db.transactions[i].subcategory = 2
         /\ db.transactions[i].tags_to_set = << 2 >>
         /\ db.transactions[j].category = 2

\* ------------------------------------------------------------------ C22
\* A draft with a subcategory hint whose category resolution ends with no
\* category: match-or-create always gives a category for a hint, so this
\* is the draft without a category hint.
Orphan(d) == d.sub # NoHint /\ d.cat = NoHint

\* Row i has the row error about the subcategory in the error list es.
OrphanError(es, i) ==
    \E k \in 1..Len(es) :
        es[k].row = i /\ es[k].msg = { "Cannot set subcategory without category" }

\* C22: a draft that carries a subcategory hint but ends category
\* resolution with no category gets the row error 'Cannot set subcategory
\* without category', is never among the persisted transactions, and makes
\* the whole batch persist nothing.
SubcategoryNeedsCategory ==
    /\ \A i \in RowsValidated : Orphan(batch[i]) => OrphanError(errors, i)
    /\ \A k \in 1..Len(db.transactions) : ~Orphan(batch[db.transactions[k].row])
    /\ \A k \in 1..Len(work.transactions) : ~Orphan(batch[work.transactions[k].row])
    /\ (pc = "returned" /\ \E i \in 1..Len(batch) : Orphan(batch[i]))
         => /\ outcome = "rejected"
            /\ result.success_count = 0
            /\ \A i \in 1..Len(batch) : Orphan(batch[i]) => OrphanError(result.errors, i)
            /\ db.transactions = entry.transactions
            /\ db.tx_tags = entry.tx_tags

\* A batch of an otherwise valid draft with a subcategory hint only and a
\* valid draft was rejected: both are in the processed list, the only
\* error is the subcategory one, nothing was saved.
SubcategoryNeedsCategoryWitness ==
    /\ pc = "returned"
    /\ outcome = "rejected"
    /\ Len(batch) = 2
    /\ Orphan(batch[1])
    /\ Len(processed) = 2
    /\ Len(result.errors) = 1
    /\ db.transactions = << >>

\* ------------------------------------------------------------------ C23
\* The owner of an account / credit card, by id.
AccountUser(id) == (CHOOSE a \in Accounts : a.id = id).user
CreditCardUser(id) == (CHOOSE c \in CreditCards : c.id = id).user

\* Transaction tx and everything it points to in the tables of store
\* belong to user.
OwnedBy(tx, store, user) ==
    /\ tx.user = user
    /\ tx.account # NoId => AccountUser(tx.account) = user
    /\ tx.credit_card # NoId => CreditCardUser(tx.credit_card) = user
    /\ tx.category # NoId => store.categories[tx.category].user = user
    /\ tx.subcategory # NoId =>
         /\ store.subcategories[tx.subcategory].user = user
         /\ store.categories[store.subcategories[tx.subcategory].category].user = user
    /\ \A k \in 1..Len(tx.tags_to_set) : store.tags[tx.tags_to_set[k]].user = user

\* The rows table holds beyond those of before are all of user, and the
\* rows of before are still there.
GrownFor(table, before, user) ==
    /\ Len(table) >= Len(before)
    /\ SubSeq(table, 1, Len(before)) = before
    /\ \A i \in (Len(before) + 1)..Len(table) : table[i].user = user

\* C23: every transaction the import of a user resolves or saves is owned
\* by that user, and so are its account, credit card, category,
\* subcategory and tags; no entity of another user is returned by the
\* resolution, and match-or-create only adds rows of the importing user,
\* also when the other user has an entity of the same name or id.
OwnershipIsolation ==
    /\ \A k \in 1..Len(processed) : OwnedBy(processed[k], db, Owner)
    /\ \A k \in 1..Len(db.transactions) : OwnedBy(db.transactions[k], db, Owner)
    /\ \A k \in 1..Len(work.transactions) : OwnedBy(work.transactions[k], db, Owner)
    /\ GrownFor(db.categories, entry.categories, Owner)
    /\ GrownFor(db.subcategories, entry.subcategories, Owner)
    /\ GrownFor(db.tags, entry.tags, Owner)
    /\ \A l \in db.tx_tags : db.tags[l[2]].user = Owner

\* On a store where the other user has the category "Food", a batch was
\* saved with a row hinting "Food", which got a category of the owner's
\* own, and a row hinting the other user's card "Master" or account id 2,
\* which got no link.
OwnershipIsolationWitness ==
    /\ pc = "returned"
    /\ outcome = "saved"
    /\ Len(db.categories) = 2
    /\ db.categories[1].user = Stranger
    /\ \E i, j \in 1..Len(db.transactions) :
         /\ batch[db.transactions[i].row].cat = db.categories[1].name
         /\ db.transactions[i].category = 2
         /\ db.categories[2].user = Owner
         /\ \/ /\ batch[db.transactions[j].row].card = "Master"
               /\ db.transactions[j].credit_card = NoId
            \/ /\ batch[db.transactions[j].row].acct = "2"
               /\ db.transactions[j].account = NoId

\* ------------------------------------------------------------------ C24
\* The owner's expense categories of a name, by position.
CategoriesNamed(name) ==
    { r \in 1..Len(db.categories) :
        /\ db.categories[r].user = Owner
        /\ Lower(db.categories[r].name) = Lower(name)
        /\ db.categories[r].ttype = "expense" }

\* Jobs i and j both looked the same name up and both found nothing.
BothMissed(i, j) ==
    /\ i # j
    /\ lookups[i].pc \in { "create", "returned" }
    /\ lookups[j].pc \in { "create", "returned" }
    /\ lookups[i].found = NoId
    /\ lookups[j].found = NoId
    /\ Lower(lookups[i].name) = Lower(lookups[j].name)

\* C24: match-or-create is not atomic across jobs.  No lock serializes
\* two import jobs of the same user: a job that found nothing is never
\* kept from creating, and when two jobs both looked a category name up
\* and both found nothing, both go on to create a category of that name,
\* each returning a row of its own.
MatchOrCreateRaces ==
    \A i, j \in Workers :
        /\ lookups[i].pc = "create" => ENABLED CreateCategory(i)
        /\ (BothMissed(i, j) /\ lookups[i].pc = "returned" /\ lookups[j].pc = "returned")
             => /\ lookups[i].category # lookups[j].category
                /\ { lookups[i].category, lookups[j].category }
                     \subseteq CategoriesNamed(lookups[i].name)

\* Starting without categories, two jobs looked "Food" up at the same
\* time, both found nothing, and the table now holds "Food" twice.
MatchOrCreateRacesWitness ==
    \E i, j \in Workers :
        /\ BothMissed(i, j)
        /\ lookups[i].pc = "returned"
        /\ lookups[j].pc = "returned"
        /\ lookups[i].name = "Food"
        /\ lookups[j].name = "Food"
        /\ db.categories = << [user |-> Owner, name |-> "Food", ttype |-> "expense"],
                              [user |-> Owner, name |-> "Food", ttype |-> "expense"] >>

\* ------------------------------------------------------------------ C25
\* C25: process_import_report saves the status PROCESSING before it
\* resolves the stored file or parses anything, and whenever it returns
\* or raises after that the status it leaves saved is IMPORTED or FAILED:
\* a completed call never leaves the job in SENT or PROCESSING.
ProcessingThenTerminal ==
    [][ \A w \in Workers :
          /\ (workers[w].pc = "mark" /\ workers'[w].pc # "mark") =>
                /\ workers'[w].pc = "import"
                /\ job'.status = "PROCESSING"
                /\ db' = db
          /\ (workers[w].pc = "import" /\ workers'[w].pc # "import") =>
                /\ workers[w].mem.status = "PROCESSING"
                /\ workers'[w].pc \in { "save", "except" }
          /\ (workers'[w].pc \in { "save", "except" } /\ workers[w].pc # workers'[w].pc) =>
                workers[w].pc = "import"
          /\ (Returns(w) \/ Raises(w)) =>
                /\ workers[w].mem.status = "PROCESSING"
                /\ job'.status \in Terminal ]_vars

\* A run on a file without rows has returned: FAILED, nothing imported.
ProcessingThenTerminalWitness ==
    /\ \E w \in Workers : workers[w].ended = "returned"
    /\ file.rows = << >>
    /\ job.status = "FAILED"
    /\ job.failed_reason = NothingImportedReason
    /\ job.processed_at > 0

\* ------------------------------------------------------------------ C26
\* The rows named by the entries of the error list es.
ErrorRows(es) == { es[k].row : k \in 1..Len(es) }

\* C26: validation does not short-circuit.  process_transactions examines
\* all N drafts even after one has failed, and the returned error list
\* has an entry for every invalid draft, in row order, each carrying that
\* draft's 1-based index.
ValidationExhaustive ==
    /\ ErrorRows(errors) = { i \in RowsValidated : RowFails(batch[i]) }
    /\ \A k, l \in 1..Len(errors) : k < l => errors[k].row <= errors[l].row
    /\ \A i \in RowsValidated :
          i \in ErrorRows(errors) \/ \E k \in 1..Len(processed) : processed[k].row = i
    /\ (pc = "returned" /\ outcome = "rejected")
         => /\ result.errors = errors
            /\ RowsValidated = 1..Len(batch)
            /\ ErrorRows(result.errors) = { i \in 1..Len(batch) : RowFails(batch[i]) }

\* A batch whose first row is invalid was rejected after the second row,
\* invalid too, had been examined: the entries are those of rows 1 and 2.
ValidationExhaustiveWitness ==
    /\ pc = "returned"
    /\ outcome = "rejected"
    /\ Len(batch) = 2
    /\ Len(result.errors) = 2
    /\ result.errors[1].row = 1
    /\ result.errors[2].row = 2

\* ------------------------------------------------------------------ C27
\* C27 (as claimed): each draft contributes at most one entry to the error
\* list, so a batch of N drafts rejected in the validation phase has
\* 1 <= error_count <= N and error_count equal to the number of invalid
\* rows, a draft with both a subcategory hint without a category and a
\* field-validation failure included.
OneErrorPerDraft ==
    /\ \A k, l \in 1..Len(errors) : errors[k].row = errors[l].row => k = l
    /\ (pc = "returned" /\ outcome = "rejected")
         => /\ 1 <= result.error_count
            /\ result.error_count <= Len(batch)
            /\ result.error_count =
                 Cardinality({ i \in 1..Len(batch) : RowFails(batch[i]) })

\* ------------------------------------------------------------------ C28
\* C28 (as claimed): after any sequence of process_import_report calls and
\* resets, a stored job in status IMPORTED has failed_reason null,
\* error_count 0, no errors and success_count > 0, and a stored job in
\* status FAILED has success_count 0 and a failed_reason.
JobRecordConsistent ==
    /\ job.status = "IMPORTED" =>
          /\ job.failed_reason = NullReason
          /\ job.error_count = 0
          /\ job.errors = << >>
          /\ job.success_count > 0
    /\ job.status = "FAILED" =>
          /\ job.success_count = 0
          /\ job.failed_reason # NullReason

\* ------------------------------------------------------------------ C29
\* The stored transactions whose origin is the file of the job.
RowsOfJobFile == { k \in 1..Len(db.transactions) : db.transactions[k].origin = job.file_name }

\* C29 (as claimed): re-processing does not duplicate data.  After any
\* number of successful runs of the same job (re-run after reset, or
\* process_import_report called again on a terminal job) storage holds at
\* most one transaction per draft row of the file: the transactions whose
\* origin is the job's file are never more than the drafts.
ReprocessingKeepsOneRowPerDraft ==
    job.exists => Cardinality(RowsOfJobFile) <= Len(file.rows)

\* ------------------------------------------------------------------ C30
\* C30 (as claimed): every draft a handler's parse returns carries a
\* non-negative amount, the sign of the source value being expressed only
\* through the transaction type, both when the type is inferred from the
\* sign and when it is taken from an explicit entry-type column (generic
\* CSV 'type' / 'transaction_type', XLSX 'tipo lancamento').
AmountsNonNegative ==
    hpc = "parsed" =>
        \A i \in 1..Len(parsed.transactions) : ~negative(parsed.transactions[i].amount)

====
